---- MODULE Spec2Model ----
(***************************************************************************)
(* excel-timecode: the custom functions of src/src/functions/functions.js  *)
(* that convert between timecode text, frame index and wall seconds.       *)
(*                                                                         *)
(* Text is a sequence of one-character strings, so that trimming, the      *)
(* regular expressions, digit parsing and zero padding are computed        *)
(* character by character.  A spreadsheet value is a record (Value) that   *)
(* carries its JavaScript type.  A function that throws returns a value    *)
(* of type "error" whose msg is the message passed to inputValueErr_.      *)
(***************************************************************************)
EXTENDS Integers, Sequences, FiniteSets, TLC

VARIABLES
    frameRate,  \* the frameRate argument of the sheet's function calls
    dropType,   \* the dropType argument of the sheet's function calls
    fn,         \* the custom function called last ("none" before any call)
    args,       \* its leading arguments (before frameRate, dropType)
    tc,         \* the ParsedTimecode local of that call (NoTc if never set)
    ret,        \* what the call returned, or the error it threw
    prev        \* the call whose result was fed to this one (NoCall if none)

vars == <<frameRate, dropType, fn, args, tc, ret, prev>>

----------------------------------------------------------------------------
(* Values and text                                                         *)

\* A finite number is the IEEE 754 double the program holds: int + num / 2^den,
\* where int is its integer part (the floor), and the fractional part has the
\* odd numerator num, a natural number written as a sequence of limbs (digits
\* in base LimbBase, least significant first), and den >= 1; an integer has
\* num = <<>> and den = 0.  (Minus zero is the integer 0.)  A whole number of
\* magnitude 2^31 or more is wide: den = -2, int is its sign (1 or -1), num
\* its magnitude and exp = 0.  A fraction whose integer part (the floor) is
\* of magnitude 2^31 or more is wide as well: it is int * num * 2^exp with
\* num odd and exp < 0.
Str(s) == [type |-> "string", s |-> s, int |-> 0, num |-> <<>>, den |-> 0, exp |-> 0, msg |-> ""]

\* true and false: int is 1 and 0, the numbers they convert to.
Boolean(b) ==
    [type |-> "boolean", s |-> <<>>, int |-> IF b THEN 1 ELSE 0, num |-> <<>>, den |-> 0, exp |-> 0, msg |-> ""]

None == [type |-> "none", s |-> <<>>, int |-> 0, num |-> <<>>, den |-> 0, exp |-> 0, msg |-> ""]

inputValueErr_(msg) ==
    [type |-> "error", s |-> <<>>, int |-> 0, num |-> <<>>, den |-> 0, exp |-> 0, msg |-> msg]

\* The numbers that are not finite have den = -1: Infinity, -Infinity and NaN
\* (int is the sign, 0 for NaN).
Infinity == [type |-> "number", s |-> <<>>, int |-> 1, num |-> <<>>, den |-> -1, exp |-> 0, msg |-> ""]

NegInfinity == [type |-> "number", s |-> <<>>, int |-> -1, num |-> <<>>, den |-> -1, exp |-> 0, msg |-> ""]

NaN == [type |-> "number", s |-> <<>>, int |-> 0, num |-> <<>>, den |-> -1, exp |-> 0, msg |-> ""]

\* Number.isFinite(v): false for every value that is not a number.
IsFinite(v) == v.type = "number" /\ v.den # -1

IsWide(v) == v.type = "number" /\ v.den = -2

\* Number.isInteger(v)
IsInteger(v) == IsFinite(v) /\ (v.den = 0 \/ (v.den = -2 /\ v.exp = 0))

\* The integer n as a number.
Num(n) == [type |-> "number", s |-> <<>>, int |-> n, num |-> <<>>, den |-> 0, exp |-> 0, msg |-> ""]

\* Natural numbers of any size, as sequences of limbs.
LimbBits == 14

LimbBase == 16384

RECURSIVE Pow2(_)
Pow2(k) == IF k = 0 THEN 1 ELSE 2 * Pow2(k - 1)

RECURSIVE BitLen(_)
BitLen(n) == IF n = 0 THEN 0 ELSE 1 + BitLen(n \div 2)

\* a without its leading (most significant) zero limbs.
BTrim(a) ==
    IF \A k \in 1..Len(a) : a[k] = 0 THEN <<>>
    ELSE SubSeq(a, 1, CHOOSE k \in 1..Len(a) :
                          a[k] # 0 /\ \A j \in (k + 1)..Len(a) : a[j] = 0)

RECURSIVE BNat(_)
BNat(n) == IF n = 0 THEN <<>> ELSE <<n % LimbBase>> \o BNat(n \div LimbBase)

RECURSIVE BInt(_)
BInt(a) == IF a = <<>> THEN 0 ELSE a[1] + LimbBase * BInt(Tail(a))

BBitLen(a) == IF a = <<>> THEN 0 ELSE LimbBits * (Len(a) - 1) + BitLen(a[Len(a)])

\* The limbs of a * n + c and the carry out of them, the lower half of the
\* limbs first and the upper half with its carry.  (A carry is never
\* negative: the test makes the lower half be computed before the upper.)
RECURSIVE BMulCarry(_, _, _)
BMulCarry(a, n, c) ==
    IF a = <<>> THEN [l |-> <<>>, c |-> c]
    ELSE IF Len(a) = 1
    THEN LET t == a[1] * n + c IN [l |-> <<t % LimbBase>>, c |-> t \div LimbBase]
    ELSE LET h  == Len(a) \div 2
             lo == BMulCarry(SubSeq(a, 1, h), n, c)
             hi == IF lo.c < 0 THEN lo ELSE BMulCarry(SubSeq(a, h + 1, Len(a)), n, lo.c)
         IN  [l |-> lo.l \o hi.l, c |-> hi.c]

\* The limbs r.l followed by the carry r.c.
Carried(r) == r.l \o BNat(r.c)

\* a * n + c for 0 <= n, c < 2^17
BMulAdd(a, n, c) == Carried(BMulCarry(a, n, c))

\* The limbs of (r * LimbBase^Len(a) + a) div n and the remainder, for
\* 0 <= r < n < 2^24: the upper half of the limbs first and the lower half with
\* its remainder, each limb in two halves of 7 bits.
RECURSIVE BDivCarry(_, _, _)
BDivCarry(a, n, r) ==
    IF a = <<>> THEN [q |-> <<>>, r |-> r]
    ELSE IF Len(a) = 1
    THEN LET t1 == r * 128 + (a[1] \div 128)
             t2 == (t1 % n) * 128 + (a[1] % 128)
         IN  [q |-> <<(t1 \div n) * 128 + (t2 \div n)>>, r |-> t2 % n]
    ELSE LET h  == Len(a) \div 2
             hi == BDivCarry(SubSeq(a, h + 1, Len(a)), n, r)
             lo == IF hi.r < 0 THEN hi ELSE BDivCarry(SubSeq(a, 1, h), n, hi.r)
         IN  [q |-> lo.q \o hi.q, r |-> lo.r]

\* d with its quotient trimmed.
Trimmed(d) == [q |-> BTrim(d.q), r |-> d.r]

\* [q |-> a div n, r |-> a mod n] for 0 < n < 2^24
BDivMod(a, n) == Trimmed(BDivCarry(a, n, 0))

\* a followed by zero limbs up to n limbs.
BPad(a, n) == IF Len(a) < n THEN a \o [j \in 1..(n - Len(a)) |-> 0] ELSE a

\* The limbs of a + b + c and the carry out of them, for a and b of the same
\* length.
RECURSIVE BAddCarry(_, _, _)
BAddCarry(a, b, c) ==
    IF a = <<>> THEN [l |-> <<>>, c |-> c]
    ELSE IF Len(a) = 1
    THEN LET t == a[1] + b[1] + c IN [l |-> <<t % LimbBase>>, c |-> t \div LimbBase]
    ELSE LET h  == Len(a) \div 2
             lo == BAddCarry(SubSeq(a, 1, h), SubSeq(b, 1, h), c)
             hi == IF lo.c < 0 THEN lo
                   ELSE BAddCarry(SubSeq(a, h + 1, Len(a)), SubSeq(b, h + 1, Len(b)), lo.c)
         IN  [l |-> lo.l \o hi.l, c |-> hi.c]

\* a + b + c for a carry c in 0..1
BAdd(a, b, c) == Carried(BAddCarry(BPad(a, Len(b)), BPad(b, Len(a)), c))

\* The limbs of a - b - c and the borrow out of them, for a and b of the same
\* length and a borrow c in 0..1.
RECURSIVE BSubBorrow(_, _, _)
BSubBorrow(a, b, c) ==
    IF a = <<>> THEN [l |-> <<>>, c |-> c]
    ELSE IF Len(a) = 1
    THEN LET t == a[1] - b[1] - c IN [l |-> <<t % LimbBase>>, c |-> IF t < 0 THEN 1 ELSE 0]
    ELSE LET h  == Len(a) \div 2
             lo == BSubBorrow(SubSeq(a, 1, h), SubSeq(b, 1, h), c)
             hi == IF lo.c < 0 THEN lo
                   ELSE BSubBorrow(SubSeq(a, h + 1, Len(a)), SubSeq(b, h + 1, Len(b)), lo.c)
         IN  [l |-> lo.l \o hi.l, c |-> hi.c]

\* a - b for a >= b
BSub(a, b) == BTrim(BSubBorrow(a, BPad(b, Len(a)), 0).l)

\* -1, 0 or 1 as a < b, a = b or a > b
BCmp(a, b) ==
    IF Len(a) # Len(b) THEN (IF Len(a) < Len(b) THEN -1 ELSE 1)
    ELSE IF a = b THEN 0
    ELSE LET k == CHOOSE i \in 1..Len(a) : a[i] # b[i] /\ \A j \in (i + 1)..Len(a) : a[j] = b[j]
         IN  IF a[k] < b[k] THEN -1 ELSE 1

\* a * 2^k
BShl(a, k) ==
    IF a = <<>> THEN a
    ELSE BMulAdd([j \in 1..(k \div LimbBits) |-> 0] \o a, Pow2(k % LimbBits), 0)

\* [q |-> hi.q, r |-> hi.r * LimbBase^Len(low) + low]
BelowLimbs(low, hi) == [q |-> hi.q, r |-> BTrim(low \o <<hi.r>>)]

\* [q |-> a div 2^k, r |-> a mod 2^k]
BDivPow2(a, k) ==
    IF Len(a) <= k \div LimbBits THEN [q |-> <<>>, r |-> a]
    ELSE BelowLimbs(SubSeq(a, 1, k \div LimbBits),
                    BDivMod(SubSeq(a, k \div LimbBits + 1, Len(a)), Pow2(k % LimbBits)))

\* a * n for 0 <= n < 2^24: the product by the bits of n above the lowest 7,
\* shifted, and the product by the lowest 7.
RECURSIVE BMul(_, _)
BMul(a, n) ==
    IF n < 131072 THEN BTrim(BMulAdd(a, n, 0))
    ELSE BTrim(BAdd(BShl(BMul(a, n \div 128), 7), BMul(a, n % 128), 0))

\* A double as k, neg, m, e: the finite number (-1)^neg * m * 2^e when k is
\* "finite"; plus or minus Infinity when k is "infinite" (m and e then stand
\* for 2^1024); NaN when k is "nan".
Double(neg, m, e) == [k |-> "finite", neg |-> neg, m |-> m, e |-> e]

DInfinity(neg) == [k |-> "infinite", neg |-> neg, m |-> <<1>>, e |-> 1024]

DNaN == [k |-> "nan", neg |-> FALSE, m |-> <<>>, e |-> 0]

DoubleOf(x) ==
    IF x.den = -1 THEN (IF x.int = 0 THEN DNaN ELSE DInfinity(x.int < 0))
    ELSE IF x.den = -2 THEN Double(x.int < 0, x.num, x.exp)
    ELSE IF x.int < 0 THEN Double(TRUE, BSub(BShl(BNat(-x.int), x.den), x.num), -x.den)
    ELSE Double(FALSE, BAdd(BShl(BNat(x.int), x.den), x.num, 0), -x.den)

\* The factors 2 of n, at most k of them.
RECURSIVE TrailingZeros(_, _)
TrailingZeros(n, k) == IF k = 0 \/ n % 2 = 1 THEN 0 ELSE 1 + TrailingZeros(n \div 2, k - 1)

\* m and e with the factors 2 of m # 0 moved to e, up to e = 0.
RECURSIVE Lowest(_, _)
Lowest(m, e) ==
    IF e >= 0 THEN [m |-> m, e |-> e]
    ELSE IF e <= -LimbBits /\ m[1] = 0 THEN Lowest(Tail(m), e + LimbBits)
    ELSE [m |-> BDivMod(m, Pow2(TrailingZeros(m[1], -e))).q, e |-> e + TrailingZeros(m[1], -e)]

\* The number (-1)^neg * l.m * 2^l.e of magnitude f.q + f.r / 2^(-l.e), for
\* l.e < 0 and l.m odd: its floor is f.q, or -(f.q + 1) if it is negative.
FractionNumber(neg, l, f) ==
    IF BBitLen(IF neg THEN BAdd(f.q, <<>>, 1) ELSE f.q) > 31
    THEN [Num(IF neg THEN -1 ELSE 1) EXCEPT !.num = l.m, !.den = -2, !.exp = l.e]
    ELSE IF neg
    THEN [Num(-BInt(f.q) - 1) EXCEPT !.num = BSub(BShl(<<1>>, -l.e), f.r), !.den = -l.e]
    ELSE [Num(BInt(f.q)) EXCEPT !.num = f.r, !.den = -l.e]

\* The number (-1)^neg * l.m * 2^l.e, for l.e <= 0 and l.m odd if l.e < 0.
LowestNumber(neg, l) ==
    IF l.e < 0 THEN FractionNumber(neg, l, BDivPow2(l.m, -l.e))
    ELSE IF BBitLen(l.m) > 31 THEN [Num(IF neg THEN -1 ELSE 1) EXCEPT !.num = l.m, !.den = -2]
    ELSE Num((IF neg THEN -1 ELSE 1) * BInt(l.m))

NumberOf(d) ==
    IF d.k = "nan" THEN NaN
    ELSE IF d.k = "infinite" THEN (IF d.neg THEN NegInfinity ELSE Infinity)
    ELSE IF d.m = <<>> THEN Num(0)
    ELSE LowestNumber(d.neg, IF d.e >= 0 THEN [m |-> BShl(d.m, d.e), e |-> 0]
                             ELSE Lowest(d.m, d.e))

\* (-1)^neg * m * 2^e as a double: infinite from 2^1024 on.
FiniteOrInfinite(neg, m, e) ==
    IF BBitLen(m) + e > 1024 THEN DInfinity(neg) ELSE Double(neg, m, e)

\* The low bits of m * 2^e that a double does not hold: those beyond the 53
\* bits of a mantissa and those below 2^-1074, the smallest positive double.
DroppedBits(m, e) ==
    IF BBitLen(m) - 53 <= 0 /\ -1074 - e <= 0 THEN 0
    ELSE IF -1074 - e > BBitLen(m) - 53 THEN -1074 - e ELSE BBitLen(m) - 53

\* f.q or f.q + 1, as f.q + (f.r + t) / 2^drop is nearer, ties to the even
\* one, where 0 <= t < 1 and sticky tells whether t > 0.
RoundedQuotient(f, sticky, drop) ==
    IF /\ BBitLen(f.r) = drop
       /\ \/ sticky
          \/ f.r # BShl(<<1>>, drop - 1)
          \/ (f.q # <<>> /\ f.q[1] % 2 = 1)
    THEN BAdd(f.q, <<>>, 1) ELSE f.q

\* The double nearest to (-1)^neg * (m + t) * 2^e, ties to the even mantissa,
\* where 0 <= t < 1 and sticky tells whether t > 0 (the IEEE 754 rounding of
\* every arithmetic operation).  Sticky is false whenever nothing is dropped.
RoundToDouble(neg, m, sticky, e) ==
    IF DroppedBits(m, e) = 0 THEN FiniteOrInfinite(neg, m, e)
    ELSE FiniteOrInfinite(neg,
                          RoundedQuotient(BDivPow2(m, DroppedBits(m, e)), sticky,
                                          DroppedBits(m, e)),
                          e + DroppedBits(m, e))

\* The double nearest to the exact value t.
Round(t) == RoundToDouble(t.neg, t.m, FALSE, t.e)

\* d * n in double arithmetic, for a double d and an integer 0 < n < 2^24.
DMul(d, n) ==
    IF d.k # "finite" THEN d ELSE RoundToDouble(d.neg, BMul(d.m, n), FALSE, d.e)

\* The double nearest to (-1)^neg * (qr.q + qr.r / n) * 2^e.
RoundQuotient(neg, qr, e) == RoundToDouble(neg, qr.q, qr.r # 0, e)

\* The bits by which a mantissa m is extended to 80 bits.
Extension(m) == IF BBitLen(m) < 80 THEN 80 - BBitLen(m) ELSE 0

\* d / n in double arithmetic, for a double d and an integer 0 < n < 2^24.
\* The dividend is extended to 80 bits, so that its quotient by a divisor
\* below 2^24 has more than 54 bits.
DDiv(d, n) ==
    IF d.k # "finite" THEN d
    ELSE RoundQuotient(d.neg, BDivMod(BShl(d.m, Extension(d.m)), n), d.e - Extension(d.m))

\* -d
DNeg(d) == IF d.k = "nan" THEN d ELSE [d EXCEPT !.neg = ~d.neg]

\* (-1)^nx * mx * 2^e + (-1)^ny * my * 2^e, not rounded (a zero sum is +0).
AlignedSum(nx, mx, ny, my, e) ==
    IF nx = ny THEN Double(nx /\ (mx # <<>> \/ my # <<>>), BAdd(mx, my, 0), e)
    ELSE IF mx = my THEN Double(FALSE, <<>>, 0)
    ELSE IF BCmp(mx, my) > 0 THEN Double(nx, BSub(mx, my), e)
    ELSE Double(ny, BSub(my, mx), e)

\* dx + dy for finite doubles, not rounded (a zero sum is +0).
DSum(dx, dy) ==
    IF dx.e < dy.e THEN AlignedSum(dx.neg, dx.m, dy.neg, BShl(dy.m, dy.e - dx.e), dx.e)
    ELSE AlignedSum(dx.neg, BShl(dx.m, dx.e - dy.e), dy.neg, dy.m, dy.e)

\* dx + dy in double arithmetic.
DAdd(dx, dy) ==
    IF dx.k = "nan" \/ dy.k = "nan" THEN DNaN
    ELSE IF dx.k = "infinite"
         THEN (IF dy.k = "infinite" /\ dy.neg # dx.neg THEN DNaN ELSE dx)
    ELSE IF dy.k = "infinite" THEN dy
    ELSE Round(DSum(dx, dy))

\* t < 0, for an exact value t.
BelowZero(t) == t.m # <<>> /\ t.neg

\* dx < dy (false when either is NaN)
DLess(dx, dy) ==
    IF dx.k = "nan" \/ dy.k = "nan" THEN FALSE
    ELSE IF dx.k = "infinite" THEN dx.neg /\ ~(dy.k = "infinite" /\ dy.neg)
    ELSE IF dy.k = "infinite" THEN ~dy.neg
    ELSE BelowZero(DSum(dx, DNeg(dy)))

\* The floor of (-1)^neg * (f.q + f.r / 2^k), as a double.
FloorOf(neg, f) ==
    Double(neg /\ (f.q # <<>> \/ f.r # <<>>),
           IF neg /\ f.r # <<>> THEN BAdd(f.q, <<>>, 1) ELSE f.q, 0)

\* Math.floor(d) of a double, as a double.
DFloor(d) ==
    IF d.k # "finite" \/ d.e >= 0 THEN d ELSE FloorOf(d.neg, BDivPow2(d.m, -d.e))

\* Math.ceil(d) of a double, as a double.
DCeil(d) == DNeg(DFloor(DNeg(d)))

\* Math.round(d) of a double, as a double: the floor of d + 1/2, the sum
\* taken exactly.
DRound(d) ==
    IF d.k # "finite" \/ d.e >= 0 THEN d ELSE DFloor(DSum(d, Double(FALSE, <<1>>, -1)))

\* An integer of magnitude below SmallLimit: sums and differences of two of
\* them are computed as integers.
SmallLimit == 1073741824

IsSmall(x) == x.den = 0 /\ -SmallLimit < x.int /\ x.int < SmallLimit

\* x + y in double arithmetic, for numbers x and y.
NumAdd(x, y) ==
    IF IsSmall(x) /\ IsSmall(y) THEN Num(x.int + y.int)
    ELSE NumberOf(DAdd(DoubleOf(x), DoubleOf(y)))

\* x - y in double arithmetic, for numbers x and y.
NumSub(x, y) ==
    IF IsSmall(x) /\ IsSmall(y) THEN Num(x.int - y.int)
    ELSE NumberOf(DAdd(DoubleOf(x), DNeg(DoubleOf(y))))

\* x * n in double arithmetic, for a number x and an integer 0 < n < 2^24.
NumMul(x, n) ==
    IF x.den = 0 /\ -(2147483647 \div n) <= x.int /\ x.int <= 2147483647 \div n
    THEN Num(x.int * n)
    ELSE NumberOf(DMul(DoubleOf(x), n))

\* Math.floor(x / n), for a number x and an integer 0 < n < 2^24: for an
\* integer x below 2^31 the floor of the double quotient is the integer
\* quotient.
FloorOfQuotient(x, n) ==
    IF x.den = 0 THEN Num(x.int \div n) ELSE NumberOf(DFloor(DDiv(DoubleOf(x), n)))

\* The number literal n/d (the double nearest to the fraction), for integers
\* n and 0 < d < 2^17: what entering n/d in a cell gives.
Rat(n, d) == NumberOf(DDiv(DoubleOf(Num(n)), d))

RECURSIVE Pow10(_)
Pow10(k) == IF k = 0 THEN 1 ELSE 10 * Pow10(k - 1)

\* a * 10^p: up to seven powers in one product, more in two halves.
RECURSIVE BMulPow10(_, _)
BMulPow10(a, p) ==
    IF p = 0 \/ a = <<>> THEN a
    ELSE IF p <= 7 THEN BMul(a, Pow10(p))
    ELSE BMulPow10(BMulPow10(a, p \div 2), p - (p \div 2))

\* d with r telling whether there is a remainder.
Remains(d) == [q |-> d.q, r |-> d.r # 0]

\* [q |-> a div 10^p, r |-> a mod 10^p # 0]: up to seven powers in one
\* division, more in two halves.
RECURSIVE BDivPow10(_, _)
RECURSIVE BDivPow10After(_, _)
BDivPow10(a, p) ==
    IF p = 0 \/ a = <<>> THEN [q |-> a, r |-> FALSE]
    ELSE IF p <= 7 THEN Remains(BDivMod(a, Pow10(p)))
    ELSE BDivPow10After(BDivPow10(a, p \div 2), p - (p \div 2))

\* x.q div 10^p, with a remainder if x has one.
BDivPow10After(x, p) ==
    IF x.r THEN [BDivPow10(x.q, p) EXCEPT !.r = TRUE] ELSE BDivPow10(x.q, p)

\* The natural number that the decimal digits s write, in limbs: one digit,
\* or the two halves of the digits put together.
RECURSIVE BOfDigits(_)
BOfDigits(s) ==
    IF s = <<>> THEN <<>>
    ELSE IF Len(s) = 1
    THEN BNat((CHOOSE k \in 1..10 : <<"0", "1", "2", "3", "4", "5", "6", "7", "8", "9">>[k] = s[1]) - 1)
    ELSE BTrim(BAdd(BMulPow10(BOfDigits(SubSeq(s, 1, Len(s) \div 2)), Len(s) - Len(s) \div 2),
                    BOfDigits(SubSeq(s, Len(s) \div 2 + 1, Len(s))), 0))

\* The number literal of the decimal digits s, negated if neg (the double
\* nearest to it): what entering the digits in a cell gives.
WholeLiteral(neg, s) == NumberOf(RoundToDouble(neg, BOfDigits(s), FALSE, 0))

\* x * b / c in double arithmetic (the product is rounded, then the
\* quotient), for a number x and integers 0 < b, c < 2^24.
NumMulDiv(x, b, c) == NumberOf(DDiv(DMul(DoubleOf(x), b), c))

\* a * b / c in double arithmetic for an integer a.
MulDiv(a, b, c) == NumMulDiv(Num(a), b, c)

\* -x for a number.
NumNeg(x) == NumberOf(DNeg(DoubleOf(x)))

\* x < y for numbers (false when either is NaN).
NumLess(x, y) ==
    IF x.den >= 0 /\ y.den >= 0
    THEN \/ x.int < y.int
         \/ x.int = y.int /\ (IF x.den > y.den
                              THEN BCmp(x.num, BShl(y.num, x.den - y.den)) < 0
                              ELSE BCmp(BShl(x.num, y.den - x.den), y.num) < 0)
    ELSE DLess(DoubleOf(x), DoubleOf(y))

\* Math.floor(x), Math.ceil(x) and Math.round(x) of a number.  (Math.ceil
\* gives -0 for -1 < x <= 0 and Math.round for -1/2 <= x <= 0: the integer 0.)
MathFloor(x) == IF x.den >= 0 THEN Num(x.int) ELSE NumberOf(DFloor(DoubleOf(x)))

MathCeil_AlwaysUp(x) ==
    IF x.den >= 0 /\ x.int < SmallLimit THEN Num(x.int + 1)
    ELSE NumberOf(DCeil(DoubleOf(x)))

MathCeil(x) ==
    IF x.den = 0 THEN x
    ELSE IF x.den > 0 /\ x.int < SmallLimit THEN Num(x.int + 1)
    ELSE NumberOf(DCeil(DoubleOf(x)))

\* Ties go up: the fractional part is 1/2 or more when its numerator has
\* den bits.
MathRound_TiesDown(x) ==
    IF x.den = 0 THEN x
    ELSE IF x.den > 0 /\ x.int < SmallLimit
    THEN Num(IF x.den > 1 /\ BBitLen(x.num) = x.den THEN x.int + 1 ELSE x.int)
    ELSE NumberOf(DRound(DoubleOf(x)))

MathRound(x) ==
    IF x.den = 0 THEN x
    ELSE IF x.den > 0 /\ x.int < SmallLimit
    THEN Num(IF BBitLen(x.num) = x.den THEN x.int + 1 ELSE x.int)
    ELSE NumberOf(DRound(DoubleOf(x)))

\* The text s as one string.
RECURSIVE Join(_)
Join(s) == IF s = <<>> THEN "" ELSE Head(s) \o Join(Tail(s))

DigitChars == <<"0", "1", "2", "3", "4", "5", "6", "7", "8", "9">>

IsDigit(c) == \E k \in 1..10 : DigitChars[k] = c

DigitVal(c) == (CHOOSE k \in 1..10 : DigitChars[k] = c) - 1

\* Number("DD") of a two-digit regular-expression group.
NumberOfDigits(s) == 10 * DigitVal(s[1]) + DigitVal(s[2])

\* String(n) for an integer n >= 0.
RECURSIVE StringOfNat(_)
StringOfNat(n) ==
    IF n < 10 THEN <<DigitChars[n + 1]>>
    ELSE Append(StringOfNat(n \div 10), DigitChars[(n % 10) + 1])

\* s.padStart(2, '0')
PadStart2(s) == IF Len(s) >= 2 THEN s ELSE IF Len(s) = 1 THEN <<"0">> \o s ELSE <<"0", "0">>

\* The white space and line terminators that String.prototype.trim strips
\* (and Number skips around a numeric text): tab, vertical tab, form feed,
\* space, no-break space, zero width no-break space, Ogham space mark,
\* line feed and carriage return.  (The space separators
\* U+2000..U+200A, U+202F, U+205F and U+3000 and the line terminators U+2028
\* and U+2029 are white space too; no string of this module can hold them.)
\* In the order written: U+0009, U+000B, U+000C, U+0020, U+00A0, U+FEFF,
\* U+1680, U+000A, U+000D.
WhiteSpace == {"\t", "", "\f", " ", " ", "﻿", " ", "\n", "\r"}

RECURSIVE TrimStart(_)
TrimStart(s) ==
    IF s # <<>> /\ Head(s) \in WhiteSpace THEN TrimStart(Tail(s)) ELSE s

RECURSIVE TrimEnd(_)
TrimEnd(s) ==
    IF s # <<>> /\ s[Len(s)] \in WhiteSpace THEN TrimEnd(SubSeq(s, 1, Len(s) - 1)) ELSE s

Trim(s) == TrimEnd(TrimStart(s))

\* The small letter of an ASCII capital letter, and c itself for any other
\* character c.
AsciiLower(c) ==
    LET UpperChars ==
            <<"A", "B", "C", "D", "E", "F", "G", "H", "I", "J", "K", "L", "M",
              "N", "O", "P", "Q", "R", "S", "T", "U", "V", "W", "X", "Y", "Z">>
        LowerChars ==
            <<"a", "b", "c", "d", "e", "f", "g", "h", "i", "j", "k", "l", "m",
              "n", "o", "p", "q", "r", "s", "t", "u", "v", "w", "x", "y", "z">>
    IN
    IF \E k \in 1..26 : UpperChars[k] = c
    THEN LowerChars[CHOOSE k \in 1..26 : UpperChars[k] = c]
    ELSE c

\* s.toLowerCase() === t, for a text t of ASCII characters.  toLowerCase
\* turns the ASCII capital letters into their small letters and leaves the
\* other ASCII characters.  Of a character that is not ASCII it makes text
\* that is not ASCII either, with two exceptions that no string of this
\* module can hold: the Kelvin sign U+212A, which becomes "k", and the capital
\* I with a dot U+0130, which becomes "i" and the combining dot U+0307.
LowersTo(s, t) == Len(s) = Len(t) /\ \A k \in 1..Len(s) : AsciiLower(s[k]) = t[k]

\* s.indexOf(';'): the position of the first semicolon, counted from 0, or -1.
IndexOfSemicolon(s) ==
    IF \E k \in 1..Len(s) : s[k] = ";"
    THEN (CHOOSE k \in 1..Len(s) : s[k] = ";" /\ \A j \in 1..(k - 1) : s[j] # ";") - 1
    ELSE -1

----------------------------------------------------------------------------
(* Numbers as text and text as numbers                                     *)

Zeros(n) == [k \in 1..n |-> "0"]

\* The decimal digits of a natural number in limbs, most significant first.
RECURSIVE BDigits(_)
BDigits(a) ==
    IF a = <<>> THEN <<>>
    ELSE LET qr == BDivMod(a, 10) IN Append(BDigits(qr.q), DigitChars[qr.r + 1])

\* -1, 0 or 1 as a / 2^qb is below, equal to or above b * 10^p: the side
\* with the negative power of ten is multiplied out.
CmpDecimal(a, qb, b, p) ==
    BCmp(BMulPow10(a, IF p < 0 THEN -p ELSE 0), BShl(BMulPow10(b, IF p > 0 THEN p ELSE 0), qb))

\* The x with 10^x <= P / 2^qb < 10^(x + 1), for P > 0: about 0.30103 times
\* the exponent of the leading bit, one more or one less.
DecimalExponentNear(P, qb, est) ==
    est - 1 + Cardinality({x \in {est, est + 1} : CmpDecimal(P, qb, <<1>>, x) >= 0})

DecimalExponent(P, qb) ==
    DecimalExponentNear(P, qb, ((BBitLen(P) - qb - 1) * 30103) \div 100000)

\* The double nearest to (-1)^neg * (d.q + t) / 2^k, where 0 <= t < 1 and
\* d.r tells whether t > 0.
RoundScaled(neg, d, k) == RoundToDouble(neg, d.q, d.r, -k)

\* The double nearest to (-1)^neg * c * 10^p, for a natural number c > 0 of
\* nd decimal digits or one fewer: infinite when nd + p is above 311, zero
\* when it is below -330.  For p < 0, c is extended by 4 * -p + 64 bits before it is
\* divided by 10^-p, so that the quotient has more than 64 bits.
DecimalOfDigits(neg, c, p, nd) ==
    IF nd + p > 311 THEN DInfinity(neg)
    ELSE IF nd + p < -330 THEN Double(neg, <<>>, 0)
    ELSE RoundScaled(neg,
                     IF p >= 0 THEN [q |-> BMulPow10(c, p), r |-> FALSE]
                     ELSE BDivPow10(BShl(c, 4 * (-p) + 64), -p),
                     IF p >= 0 THEN 0 ELSE 4 * (-p) + 64)

\* The double nearest to (-1)^neg * c * 10^p, for a natural number c in limbs.
DecimalToDouble(neg, c, p) ==
    IF c = <<>> THEN Double(neg, <<>>, 0)
    ELSE DecimalOfDigits(neg, c, p, (BBitLen(c) * 30103) \div 100000 + 1)

\* s with trailing zeros removed.
RECURSIVE StripTrailingZeros(_)
StripTrailingZeros(s) ==
    IF s # <<>> /\ s[Len(s)] = "0" THEN StripTrailingZeros(SubSeq(s, 1, Len(s) - 1)) ELSE s

\* The double d is the finite number P / 2^qb.
IsDouble(d, P, qb) ==
    /\ d.k = "finite"
    /\ BShl(d.m, IF d.e + qb > 0 THEN d.e + qb ELSE 0)
           = BShl(P, IF d.e + qb < 0 THEN -(d.e + qb) ELSE 0)

\* Those of the decimals c * 10^p, c in cs, that read back as the double
\* P / 2^qb.
ReadingBack(cs, p, P, qb) == {c \in cs : IsDouble(DecimalToDouble(FALSE, c, p), P, qb)}

\* The value 0.digits * 10^n of the decimal ds * 10^p, ds being digits.
DigitsAt(ds, p) == [digits |-> StripTrailingZeros(ds), n |-> Len(ds) + p]

\* low * 10^p is at least as near to P / 2^qb as (low + 1) * 10^p is, and
\* low is even if both are as near: side compares 2 * P / 2^qb with
\* (2 * low + 1) * 10^p.
LowNearer(low, side) == side < 0 \/ (side = 0 /\ (low = <<>> \/ low[1] % 2 = 0))

\* For a finite double P / 2^qb > 0: the fewest decimal digits that read back
\* as it (Number::toString), as [digits, n] where it reads 0.digits * 10^n,
\* from k digits on.  A decimal of k digits that reads back is the one below
\* the double (low) or the one above; of the two the nearer is taken, and the
\* even one when the double is half way.
RECURSIVE ShortestDecimal(_, _, _, _)

ChosenDecimal(P, qb, n, k, low, reads) ==
    IF reads = {} THEN ShortestDecimal(P, qb, n, k + 1)
    ELSE DigitsAt(BDigits(IF /\ low \in reads
                             /\ \/ reads = {low}
                                \/ LowNearer(low, CmpDecimal(BMulAdd(P, 2, 0), qb,
                                                             BMulAdd(low, 2, 1), n - k))
                          THEN low ELSE BAdd(low, <<>>, 1)),
                  n - k)

NearestDecimal(P, qb, n, k, low) ==
    ChosenDecimal(P, qb, n, k, low, ReadingBack({low, BAdd(low, <<>>, 1)}, n - k, P, qb))

ShortestDecimal(P, qb, n, k) ==
    NearestDecimal(P, qb, n, k,
                   BDivPow10(BDivPow2(BMulPow10(P, IF n - k < 0 THEN k - n ELSE 0), qb).q,
                             IF n - k > 0 THEN n - k ELSE 0).q)

\* The [digits, n] of the double P / 2^qb > 0.
ShortestDigits(P, qb) == ShortestDecimal(P, qb, DecimalExponent(P, qb) + 1, 1)

\* Number::toString of the positive number 0.digits * 10^n, for s = [digits,
\* n]: written plain up to 21 integer digits and down to 6 leading zeros, and
\* with an exponent beyond.
FormatDigits(s) ==
    IF Len(s.digits) <= s.n /\ s.n <= 21 THEN s.digits \o Zeros(s.n - Len(s.digits))
    ELSE IF 0 < s.n /\ s.n <= 21
         THEN SubSeq(s.digits, 1, s.n) \o <<".">> \o SubSeq(s.digits, s.n + 1, Len(s.digits))
    ELSE IF -6 < s.n /\ s.n <= 0 THEN <<"0", ".">> \o Zeros(-s.n) \o s.digits
    ELSE (IF Len(s.digits) = 1 THEN s.digits ELSE <<s.digits[1], ".">> \o Tail(s.digits))
             \o (IF s.n - 1 < 0 THEN <<"e", "-">> \o StringOfNat(1 - s.n)
                 ELSE <<"e", "+">> \o StringOfNat(s.n - 1))

\* String(d) of a double.
StringOfDouble(d) ==
    IF d.k = "nan" THEN <<"N", "a", "N">>
    ELSE IF d.k = "infinite"
    THEN (IF d.neg THEN <<"-">> ELSE <<>>) \o <<"I", "n", "f", "i", "n", "i", "t", "y">>
    ELSE IF d.m = <<>> THEN <<"0">>
    ELSE (IF d.neg THEN <<"-">> ELSE <<>>)
             \o FormatDigits(ShortestDigits(IF d.e >= 0 THEN BShl(d.m, d.e) ELSE d.m,
                                            IF d.e >= 0 THEN 0 ELSE -d.e))

\* String(x) of a number (Number::toString): an integer below 2^31 by its
\* digits, any other number by the shortest digits that read back as it.
StringOfNumber(x) ==
    IF x.den = 0
    THEN (IF x.int < 0 THEN <<"-">> \o StringOfNat(-x.int) ELSE StringOfNat(x.int))
    ELSE StringOfDouble(DoubleOf(x))

\* String(v), as the + operator and template literals take it.
StringOfValue(v) ==
    CASE v.type = "string"  -> v.s
      [] v.type = "boolean" -> IF v.int = 1 THEN <<"t", "r", "u", "e">>
                               ELSE <<"f", "a", "l", "s", "e">>
      [] v.type = "number"  -> StringOfNumber(v)
      [] OTHER -> <<"u", "n", "d", "e", "f", "i", "n", "e", "d">>

\* The value of the digit c in radix r, or -1.
RadixDigitVal(c, r) ==
    LET RadixChars ==
            <<"0", "1", "2", "3", "4", "5", "6", "7", "8", "9",
              "a", "b", "c", "d", "e", "f">>
    IN
    IF \E k \in 1..r : RadixChars[k] = AsciiLower(c)
    THEN (CHOOSE k \in 1..r : RadixChars[k] = AsciiLower(c)) - 1
    ELSE -1

\* The natural number that the digits s write in radix r, in limbs.
RECURSIVE BOfRadix(_, _)
BOfRadix(s, r) ==
    IF s = <<>> THEN <<>>
    ELSE BTrim(BMulAdd(BOfRadix(SubSeq(s, 1, Len(s) - 1), r), r, RadixDigitVal(s[Len(s)], r)))

\* The radix of a literal 0x.., 0o.., 0b.. (0 if t is none of them).
RadixOfLiteral(t) ==
    IF Len(t) < 3 \/ t[1] # "0" THEN 0
    ELSE LET r == CASE AsciiLower(t[2]) = "x" -> 16
                    [] AsciiLower(t[2]) = "o" -> 8
                    [] AsciiLower(t[2]) = "b" -> 2
                    [] OTHER -> 0
         IN  IF r # 0 /\ \A k \in 3..Len(t) : RadixDigitVal(t[k], r) >= 0 THEN r ELSE 0

\* s with leading zeros removed.
RECURSIVE StripLeadingZeros(_)
StripLeadingZeros(s) == IF s # <<>> /\ Head(s) = "0" THEN StripLeadingZeros(Tail(s)) ELSE s

\* The position of the first character of s that is in cs, Len(s) + 1 if
\* there is none.
FirstOf(s, cs) ==
    IF \E k \in 1..Len(s) : s[k] \in cs
    THEN CHOOSE k \in 1..Len(s) : s[k] \in cs /\ \A j \in 1..(k - 1) : s[j] \notin cs
    ELSE Len(s) + 1

\* s without the sign it may start with.
Unsigned(s) == IF s # <<>> /\ s[1] \in {"+", "-"} THEN Tail(s) ELSE s

\* s is digits only, and has some if it must.
DigitsOnly(s, some) == (some => s # <<>>) /\ \A k \in 1..Len(s) : IsDigit(s[k])

\* The parts of an unsigned decimal literal u: the digits before the point,
\* the digits after it, whether an exponent part follows (an e or E), and
\* the text of the exponent after the e.
DecimalParts(u) ==
    LET e == FirstOf(u, {"e", "E"})
        d == FirstOf(SubSeq(u, 1, e - 1), {"."})
    IN  [int |-> SubSeq(u, 1, d - 1), frac |-> SubSeq(u, d + 1, e - 1),
         hasExp |-> e <= Len(u), exp |-> SubSeq(u, e + 1, Len(u))]

\* The exponent that the text x writes, an optional sign and digits (0 if x
\* is empty).  More than 5 digits after the leading zeros are taken as
\* 1000000: the number is then infinite or zero whatever its digits.
ExponentOf(x) ==
    (IF x # <<>> /\ x[1] = "-" THEN -1 ELSE 1)
        * (IF Len(StripLeadingZeros(Unsigned(x))) > 5 THEN 1000000
           ELSE BInt(BOfDigits(StripLeadingZeros(Unsigned(x)))))

\* The double that a decimal literal of parts p writes, negated if neg:
\* digits with an optional point among them and an optional exponent part;
\* NaN if the parts do not make a literal.
DecimalLiteral(neg, p) ==
    IF /\ DigitsOnly(p.int, FALSE)
       /\ DigitsOnly(p.frac, FALSE)
       /\ Len(p.int) + Len(p.frac) >= 1
       /\ p.hasExp => DigitsOnly(Unsigned(p.exp), TRUE)
    THEN DecimalToDouble(neg, BOfDigits(p.int \o p.frac), ExponentOf(p.exp) - Len(p.frac))
    ELSE DNaN

\* Number(t) of a trimmed text: the empty text is 0; then an optional sign
\* and Infinity, a literal in radix 16, 8 or 2, or a decimal literal with an
\* optional sign; anything else is NaN.
NumberOfTrimmed(t) ==
    IF t = <<>> THEN Num(0)
    ELSE IF Unsigned(t) = <<"I", "n", "f", "i", "n", "i", "t", "y">>
         THEN (IF t[1] = "-" THEN NegInfinity ELSE Infinity)
    ELSE NumberOf(IF RadixOfLiteral(t) # 0
                  THEN RoundToDouble(FALSE, BOfRadix(SubSeq(t, 3, Len(t)), RadixOfLiteral(t)),
                                     FALSE, 0)
                  ELSE DecimalLiteral(t[1] = "-", DecimalParts(Unsigned(t))))

\* Number(s) of a text: white space is trimmed first.
StringToNumber(s) == NumberOfTrimmed(Trim(s))

\* Number(v) of a value that is no text.
NonTextToNumber(v) ==
    CASE v.type = "number"  -> v
      [] v.type = "boolean" -> Num(v.int)
      [] OTHER -> NaN

\* Number(v), as the arithmetic operators take a value.
ToNumber(v) == IF v.type = "string" THEN StringToNumber(v.s) ELSE NonTextToNumber(v)

\* The two texts of f, joined.
BothTexts(f) == f[1] \o f[2]

\* x + y of JavaScript: the texts joined if either is a text, else the sum
\* of the numbers.
Plus(x, y) ==
    IF x.type = "string" \/ y.type = "string"
    THEN Str(BothTexts([k \in 1..2 |-> StringOfValue(<<x, y>>[k])]))
    ELSE NumAdd(NonTextToNumber(x), NonTextToNumber(y))

----------------------------------------------------------------------------
(* Frame rate standards                                                    *)

L23_976 == <<"2", "3", ".", "9", "7", "6">>
L23_98  == <<"2", "3", ".", "9", "8">>
L24_000 == <<"2", "4", ".", "0", "0", "0">>
L24_00  == <<"2", "4", ".", "0", "0">>
L25_000 == <<"2", "5", ".", "0", "0", "0">>
L25_00  == <<"2", "5", ".", "0", "0">>
L29_970 == <<"2", "9", ".", "9", "7", "0">>
L29_97  == <<"2", "9", ".", "9", "7">>
L30_000 == <<"3", "0", ".", "0", "0", "0">>
L30_00  == <<"3", "0", ".", "0", "0">>
L47_952 == <<"4", "7", ".", "9", "5", "2">>
L47_95  == <<"4", "7", ".", "9", "5">>
L48_000 == <<"4", "8", ".", "0", "0", "0">>
L48_00  == <<"4", "8", ".", "0", "0">>
L50_000 == <<"5", "0", ".", "0", "0", "0">>
L50_00  == <<"5", "0", ".", "0", "0">>
L59_940 == <<"5", "9", ".", "9", "4", "0">>
L59_94  == <<"5", "9", ".", "9", "4">>
L60_000 == <<"6", "0", ".", "0", "0", "0">>
L60_00  == <<"6", "0", ".", "0", "0">>

Rate(f, p) == [frames |-> f, perWallSecs |-> p]

FRAME_RATES_ ==
    (L23_976 :> Rate(24000, 1001)) @@ (L23_98 :> Rate(24000, 1001)) @@
    (L24_000 :> Rate(24, 1))       @@ (L24_00 :> Rate(24, 1)) @@
    (L25_000 :> Rate(25, 1))       @@ (L25_00 :> Rate(25, 1)) @@
    (L29_970 :> Rate(30000, 1001)) @@ (L29_97 :> Rate(30000, 1001)) @@
    (L30_000 :> Rate(30, 1))       @@ (L30_00 :> Rate(30, 1)) @@
    (L47_952 :> Rate(48000, 1001)) @@ (L47_95 :> Rate(48000, 1001)) @@
    (L48_000 :> Rate(48, 1))       @@ (L48_00 :> Rate(48, 1)) @@
    (L50_000 :> Rate(50, 1))       @@ (L50_00 :> Rate(50, 1)) @@
    (L59_940 :> Rate(60000, 1001)) @@ (L59_94 :> Rate(60000, 1001)) @@
    (L60_000 :> Rate(60, 1))       @@ (L60_00 :> Rate(60, 1))


\* DROP_FRAMES_PER_10MINS_ with entries for 30.000 and 30.00 as well.
DROP_FRAMES_PER_10MINS_WithThirty ==
    (L29_970 :> 18) @@ (L29_97 :> 18) @@ (L59_940 :> 36) @@ (L59_94 :> 36) @@
    (L30_000 :> 18) @@ (L30_00 :> 18)

DROP_FRAMES_PER_10MINS_ ==
    (L29_970 :> 18) @@ (L29_97 :> 18) @@ (L59_940 :> 36) @@ (L59_94 :> 36)

\* /^[0-9][0-9].[0-9][0-9][0-9]?$/ : the third character is an unescaped
\* dot, which matches any character except a line terminator (line feed,
\* carriage return; and U+2028, U+2029, which no string of this module can
\* hold).
FRAME_RATE_STR_FMT_(s) ==
    LET LineTerminators == {"\n", "\r"} IN
    /\ Len(s) \in {5, 6}
    /\ IsDigit(s[1])
    /\ IsDigit(s[2])
    /\ s[3] \notin LineTerminators
    /\ IsDigit(s[4])
    /\ IsDigit(s[5])
    /\ (Len(s) = 6 => IsDigit(s[6]))

ErrRateNotText     == "frameRate must be a single plain text value"
ErrRateFormat ==
    "frameRate must contain 2 or 3 digits after period (e.g. \"23.976\" or \"24.00\")"

\* `Unsupported frame rate: "${frameRateStr}"`
ErrRateUnsupported(frameRateStr) ==
    "Unsupported frame rate: \"" \o Join(frameRateStr) \o "\""

ErrDropNotText == "dropType must be a single plain text value"

ErrDropValue == "dropType value must be \"non-drop\" or \"drop\" (without quotes)"

\* `frameRate ${frameRateStr} must be non-drop`
ErrMustBeNonDrop(frameRateStr) == "frameRate " \o Join(frameRateStr) \o " must be non-drop"

TextDrop    == <<"d", "r", "o", "p">>
TextNonDrop == <<"n", "o", "n", "-", "d", "r", "o", "p">>

NoStd == [frames |-> 0, perWallSecs |-> 1, intFps |-> 0, dropFramesPer10Mins |-> 0]

\* Math.ceil(a / b) for integers a >= 0, b > 0
CeilDiv(a, b) == (a + b - 1) \div b

\* The standard of a supported frame rate and a drop type that goes with it.
StdOf(rate, dropFramesPer10Mins) ==
    [frames |-> rate.frames,
     perWallSecs |-> rate.perWallSecs,
     intFps |-> CeilDiv(rate.frames, rate.perWallSecs),
     dropFramesPer10Mins |-> dropFramesPer10Mins]

\* parseTcStd_ from the check of dropTypeStr on, both texts being trimmed:
\* dropTypeStr in small letters is compared with "drop" and "non-drop".
StdOfTexts(frameRateStr, dropTypeStr) ==
    IF ~LowersTo(dropTypeStr, TextDrop) /\ ~LowersTo(dropTypeStr, TextNonDrop)
    THEN [err |-> ErrDropValue, std |-> NoStd]
    ELSE IF LowersTo(dropTypeStr, TextDrop)
            /\ frameRateStr \notin DOMAIN DROP_FRAMES_PER_10MINS_
    THEN [err |-> ErrMustBeNonDrop(frameRateStr), std |-> NoStd]
    ELSE [err |-> "",
          std |-> StdOf(FRAME_RATES_[frameRateStr],
                        IF LowersTo(dropTypeStr, TextDrop)
                        THEN DROP_FRAMES_PER_10MINS_[frameRateStr]
                        ELSE 0)]

\* parseTcStd_ from the check of frameRateStr on, frameRateStr being trimmed.
StdOfRate(frameRateStr, dropTypeArg) ==
    IF ~FRAME_RATE_STR_FMT_(frameRateStr) THEN [err |-> ErrRateFormat, std |-> NoStd]
    ELSE IF frameRateStr \notin DOMAIN FRAME_RATES_
    THEN [err |-> ErrRateUnsupported(frameRateStr), std |-> NoStd]
    ELSE IF dropTypeArg.type # "string" THEN [err |-> ErrDropNotText, std |-> NoStd]
    ELSE StdOfTexts(frameRateStr, Trim(dropTypeArg.s))

\* Returns [err |-> message ("" if none was thrown), std |-> TimecodeStandard].
parseTcStd_(frameRateArg, dropTypeArg) ==
    IF frameRateArg.type # "string" THEN [err |-> ErrRateNotText, std |-> NoStd]
    ELSE StdOfRate(Trim(frameRateArg.s), dropTypeArg)

----------------------------------------------------------------------------
(* Timecode parsing and validation                                         *)

ParsedTimecode(hh, mm, ss, ff) == [hh |-> hh, mm |-> mm, ss |-> ss, ff |-> ff]

NoTc == ParsedTimecode(-1, -1, -1, -1)

\* The fields of a ParsedTimecode as numbers: parseTc_ gives plain integers,
\* the arithmetic on timecodes takes numbers.
TcNumbers(t) == ParsedTimecode(Num(t.hh), Num(t.mm), Num(t.ss), Num(t.ff))


\* TC_STR_FMT_ with a pattern that takes only ':' as the second separator.
TC_STR_FMT_ColonMiddle(s) ==
    /\ Len(s) = 11
    /\ \A k \in {1, 2, 4, 5, 7, 8, 10, 11} : IsDigit(s[k])
    /\ \A k \in {3, 9} : s[k] \in {":", ";"}
    /\ s[6] = ":"

\* /^([0-9][0-9])[:;]([0-9][0-9])[:;]([0-9][0-9])[:;]([0-9][0-9])$/
TC_STR_FMT_(s) ==
    /\ Len(s) = 11
    /\ \A k \in {1, 2, 4, 5, 7, 8, 10, 11} : IsDigit(s[k])
    /\ \A k \in {3, 6, 9} : s[k] \in {":", ";"}

MINS_PER_HR_ == 60

SECS_PER_MIN_ == 60

MaxNumericTimecode == 99999999

ErrTcNumber   == "numerical timecode must be an integer in [0, 99999999] range"
ErrTcType     == "timecode must be a single plain text value or custom format number"

\* `timecode must be in HH:MM:SS:FF format: "${timecode}"`, with the text as
\* it was given (not trimmed).
ErrTcFormat(timecode) ==
    "timecode must be in HH:MM:SS:FF format: \"" \o Join(timecode) \o "\""

\* `timecode MM must be in range 00-59: "${tc.mm}"`
ErrTcMM(mm) == "timecode MM must be in range 00-59: \"" \o Join(StringOfNat(mm)) \o "\""

\* `timecode SS must be in range 00-59: "${tc.ss}"`
ErrTcSS(ss) == "timecode SS must be in range 00-59: \"" \o Join(StringOfNat(ss)) \o "\""

\* `timecode FF must be in range 00-${tcStd.intFps - 1}: "${tc.ff}"`
ErrTcFF(intFps, ff) ==
    "timecode FF must be in range 00-" \o Join(StringOfNat(intFps - 1)) \o ": \""
        \o Join(StringOfNat(ff)) \o "\""

\* The four texts of f with colons between them.
ColonJoined(f) == f[1] \o <<":">> \o f[2] \o <<":">> \o f[3] \o <<":">> \o f[4]

\* `${hh}:${mm}:${ss}:${ff}` with each field String(..).padStart(2, '0')
tcToStr_(t) ==
    ColonJoined([k \in 1..4 |-> PadStart2(StringOfNumber(<<t.hh, t.mm, t.ss, t.ff>>[k]))])

\* `timecode invalid: "${tcToStr_(tc)}" is a dropped frame number`
ErrTcDropped(t) ==
    "timecode invalid: \"" \o Join(tcToStr_(TcNumbers(t))) \o "\" is a dropped frame number"

\* `only drop timecode may use semi-colon separator: "${timecode}"`
ErrTcSemi(timecode) ==
    "only drop timecode may use semi-colon separator: \"" \o Join(timecode) \o "\""

parseTc_NoUpperBound(timecode) ==
    IF timecode.type = "number" THEN
        IF ~IsInteger(timecode) \/ timecode.int < 0
        THEN [err |-> ErrTcNumber, tc |-> NoTc]
        ELSE LET digits0 == timecode.int
                 ff      == digits0 % 100
                 digits1 == (digits0 - ff) \div 100
                 ss      == digits1 % 100
                 digits2 == (digits1 - ss) \div 100
                 mm      == digits2 % 100
                 digits3 == (digits2 - mm) \div 100
                 hh      == digits3 % 100
             IN  [err |-> "", tc |-> ParsedTimecode(hh, mm, ss, ff)]
    ELSE IF timecode.type # "string" THEN [err |-> ErrTcType, tc |-> NoTc]
    ELSE LET str == Trim(timecode.s) IN
         IF ~TC_STR_FMT_(str) THEN [err |-> ErrTcFormat(timecode.s), tc |-> NoTc]
         ELSE [err |-> "",
               tc |-> ParsedTimecode(NumberOfDigits(SubSeq(str, 1, 2)),
                                     NumberOfDigits(SubSeq(str, 4, 5)),
                                     NumberOfDigits(SubSeq(str, 7, 8)),
                                     NumberOfDigits(SubSeq(str, 10, 11)))]

\* Returns [err |-> message ("" if none was thrown), tc |-> ParsedTimecode].
parseTc_(timecode) ==
    IF timecode.type = "number" THEN
        IF \/ ~IsInteger(timecode) \/ timecode.int < 0 \/ IsWide(timecode)
           \/ MaxNumericTimecode < timecode.int
        THEN [err |-> ErrTcNumber, tc |-> NoTc]
        ELSE LET digits0 == timecode.int
                 ff      == digits0 % 100
                 digits1 == (digits0 - ff) \div 100
                 ss      == digits1 % 100
                 digits2 == (digits1 - ss) \div 100
                 mm      == digits2 % 100
                 digits3 == (digits2 - mm) \div 100
                 hh      == digits3 % 100
             IN  [err |-> "", tc |-> ParsedTimecode(hh, mm, ss, ff)]
    ELSE IF timecode.type # "string" THEN [err |-> ErrTcType, tc |-> NoTc]
    ELSE LET str == Trim(timecode.s) IN
         IF ~TC_STR_FMT_(str) THEN [err |-> ErrTcFormat(timecode.s), tc |-> NoTc]
         ELSE [err |-> "",
               tc |-> ParsedTimecode(NumberOfDigits(SubSeq(str, 1, 2)),
                                     NumberOfDigits(SubSeq(str, 4, 5)),
                                     NumberOfDigits(SubSeq(str, 7, 8)),
                                     NumberOfDigits(SubSeq(str, 10, 11)))]


\* isDropSec_ that forgets that minutes divisible by 10 drop nothing.
isDropSec_EveryMinute(t, tcStd) ==
    IF tcStd.dropFramesPer10Mins = 0 THEN FALSE
    ELSE t.ss = 0

isDropSec_(t, tcStd) ==
    IF tcStd.dropFramesPer10Mins = 0 THEN FALSE
    ELSE t.ss = 0 /\ (t.mm % 10) # 0


\* framesPerDroppedBlock_ that divides by 18.
framesPerDroppedBlock_Div18(tcStd) == tcStd.dropFramesPer10Mins \div 18

\* dropFramesPer10Mins / 9: 18 and 36 are the only non-zero values, so the
\* quotient is the integer 2 or 4.
framesPerDroppedBlock_(tcStd) == tcStd.dropFramesPer10Mins \div 9


\* validateTc_ whose FF check lets ff = intFps through.
validateTc_FfInclusive(timecode, t, tcStd) ==
    IF t.mm >= MINS_PER_HR_ THEN ErrTcMM(t.mm)
    ELSE IF t.ss >= SECS_PER_MIN_ THEN ErrTcSS(t.ss)
    ELSE IF t.ff > tcStd.intFps THEN ErrTcFF(tcStd.intFps, t.ff)
    ELSE IF isDropSec_(t, tcStd) /\ t.ff < framesPerDroppedBlock_(tcStd) THEN ErrTcDropped(t)
    ELSE IF /\ timecode.type = "string"
            /\ IndexOfSemicolon(timecode.s) >= 0
            /\ tcStd.dropFramesPer10Mins = 0
         THEN ErrTcSemi(timecode.s)
    ELSE ""

\* Returns the message of the error validateTc_ throws, "" if it returns.
validateTc_(timecode, t, tcStd) ==
    IF t.mm >= MINS_PER_HR_ THEN ErrTcMM(t.mm)
    ELSE IF t.ss >= SECS_PER_MIN_ THEN ErrTcSS(t.ss)
    ELSE IF t.ff >= tcStd.intFps THEN ErrTcFF(tcStd.intFps, t.ff)
    ELSE IF isDropSec_(t, tcStd) /\ t.ff < framesPerDroppedBlock_(tcStd) THEN ErrTcDropped(t)
    ELSE IF /\ timecode.type = "string"
            /\ IndexOfSemicolon(timecode.s) >= 0
            /\ tcStd.dropFramesPer10Mins = 0
         THEN ErrTcSemi(timecode.s)
    ELSE ""

----------------------------------------------------------------------------
(* Timecode <-> frame index                                                *)

\* The remainder of d by n, for a finite double d whose magnitude has the
\* integer part f.q and the fractional part f.r / 2^k.
RemOfParts(d, f, k, n) ==
    NumberOf(Double(d.neg, BAdd(BShl(BNat(BDivMod(f.q, n).r), k), f.r, 0), -k))

DRem(d, n) ==
    IF d.k # "finite" THEN NaN
    ELSE RemOfParts(d,
                    BDivPow2(IF d.e >= 0 THEN BShl(d.m, d.e) ELSE d.m, IF d.e >= 0 THEN 0 ELSE -d.e),
                    IF d.e >= 0 THEN 0 ELSE -d.e,
                    n)

\* x % n of JavaScript for a number x and an integer 0 < n < 2^24: the
\* remainder of the truncated division, which has the sign of x and is
\* exact; NaN when x is not finite.
NumRem(x, n) ==
    IF x.den = 0 THEN Num(IF x.int < 0 THEN -((-x.int) % n) ELSE x.int % n)
    ELSE DRem(DoubleOf(x), n)

\* x >= y for numbers (false when either is NaN).
NumAtLeast(x, y) == ~(x.den = -1 /\ x.int = 0) /\ (x = y \/ NumLess(y, x))

\* frameIdx with the dropped frame numbers of a drop standard taken off:
\* those through the start of HH, those from the start of HH to the start of
\* the 10 minute block, and those since the start of the 10 minute block.
LessDroppedFrames(frameIdx, t, tcStd) ==
    IF tcStd.dropFramesPer10Mins > 0
    THEN NumSub(NumSub(NumSub(frameIdx, NumMul(t.hh, 6 * tcStd.dropFramesPer10Mins)),
                       NumMul(FloorOfQuotient(t.mm, 10), tcStd.dropFramesPer10Mins)),
                NumMul(NumRem(t.mm, 10), framesPerDroppedBlock_(tcStd)))
    ELSE frameIdx

\* tcToFrameIdx_ without the frames dropped through the start of HH.
tcToFrameIdx_NoHourDrop(t, tcStd) ==
    LET tcTotalMins == NumAdd(NumMul(t.hh, MINS_PER_HR_), t.mm)
        tcTotalSecs == NumAdd(NumMul(tcTotalMins, SECS_PER_MIN_), t.ss)
        frameIdx0   == NumAdd(NumMul(tcTotalSecs, tcStd.intFps), t.ff)
    IN  IF tcStd.dropFramesPer10Mins > 0
        THEN LET frameIdx2 == NumSub(frameIdx0,
                                  NumMul(FloorOfQuotient(t.mm, 10), tcStd.dropFramesPer10Mins))
             IN  NumSub(frameIdx2, NumMul(NumRem(t.mm, 10), framesPerDroppedBlock_(tcStd)))
        ELSE frameIdx0

\* tcToFrameIdx_ without the frames dropped in the complete 10 minute blocks.
tcToFrameIdx_No10MinDrop(t, tcStd) ==
    LET tcTotalMins == NumAdd(NumMul(t.hh, MINS_PER_HR_), t.mm)
        tcTotalSecs == NumAdd(NumMul(tcTotalMins, SECS_PER_MIN_), t.ss)
        frameIdx0   == NumAdd(NumMul(tcTotalSecs, tcStd.intFps), t.ff)
        framesDroppedPerHr == 6 * tcStd.dropFramesPer10Mins
    IN  IF tcStd.dropFramesPer10Mins > 0
        THEN LET frameIdx1 == NumSub(frameIdx0, NumMul(t.hh, framesDroppedPerHr))
             IN  NumSub(frameIdx1, NumMul(NumRem(t.mm, 10), framesPerDroppedBlock_(tcStd)))
        ELSE frameIdx0

\* tcToFrameIdx_ that takes an hour to have five dropping 10 minute blocks.
tcToFrameIdx_FiveBlockHour(t, tcStd) ==
    LET tcTotalMins == NumAdd(NumMul(t.hh, MINS_PER_HR_), t.mm)
        tcTotalSecs == NumAdd(NumMul(tcTotalMins, SECS_PER_MIN_), t.ss)
        frameIdx0   == NumAdd(NumMul(tcTotalSecs, tcStd.intFps), t.ff)
        framesDroppedPerHr == 5 * tcStd.dropFramesPer10Mins
    IN  IF tcStd.dropFramesPer10Mins > 0
        THEN LET frameIdx1 == NumSub(frameIdx0, NumMul(t.hh, framesDroppedPerHr))
                 frameIdx2 == NumSub(frameIdx1,
                                  NumMul(FloorOfQuotient(t.mm, 10), tcStd.dropFramesPer10Mins))
             IN  NumSub(frameIdx2, NumMul(NumRem(t.mm, 10), framesPerDroppedBlock_(tcStd)))
        ELSE frameIdx0

\* The frame index of the timecode t, whose fields are numbers:
\* (intFps * (SECS_PER_MIN_ * (MINS_PER_HR_ * hh + mm) + ss)) + ff, less the
\* dropped frames.  Every sum, product and difference is the one of double
\* arithmetic.
tcToFrameIdx_(t, tcStd) ==
    LessDroppedFrames(
        NumAdd(NumMul(NumAdd(NumMul(NumAdd(NumMul(t.hh, MINS_PER_HR_), t.mm), SECS_PER_MIN_),
                             t.ss),
                      tcStd.intFps),
               t.ff),
        t, tcStd)

\* numDroppedFrames, with the blocks of the minutes of the current 10 minute
\* block added when framesRemaining is past its first minute: one for each
\* complete drop minute and one for the current minute.
DroppedWithMinutes(numDroppedFrames, framesRemaining, tcStd) ==
    IF NumAtLeast(framesRemaining, Num(tcStd.intFps * SECS_PER_MIN_))
    THEN NumAdd(numDroppedFrames,
                NumMul(NumAdd(FloorOfQuotient(NumSub(framesRemaining,
                                                     Num(tcStd.intFps * SECS_PER_MIN_)),
                                              tcStd.intFps * SECS_PER_MIN_
                                                  - framesPerDroppedBlock_(tcStd)),
                              Num(1)),
                       framesPerDroppedBlock_(tcStd)))
    ELSE numDroppedFrames

\* The frames dropped before frameIdx, a number, which is in the 10 minute
\* block after numComplete10MinBlocks blocks of framesPer10Mins frames.
DroppedWithBlocks(frameIdx, numComplete10MinBlocks, framesPer10Mins, tcStd) ==
    DroppedWithMinutes(NumMul(numComplete10MinBlocks, tcStd.dropFramesPer10Mins),
                       NumSub(frameIdx, NumMul(numComplete10MinBlocks, framesPer10Mins)),
                       tcStd)

DroppedBefore(frameIdx, framesPer10Mins, tcStd) ==
    DroppedWithBlocks(frameIdx, FloorOfQuotient(frameIdx, framesPer10Mins), framesPer10Mins,
                      tcStd)

\* framesDroppedBeforeFrameIdx_ that tests framesRemaining > framesPerNonDropMin.
framesDroppedBeforeFrameIdx_StrictMinute(frameIdx, tcStd) ==
    IF tcStd.dropFramesPer10Mins = 0 THEN Num(0)
    ELSE
    LET framesPerNonDropMin   == tcStd.intFps * SECS_PER_MIN_
        framesPerDroppedBlock == framesPerDroppedBlock_(tcStd)
        framesPerDropMin      == framesPerNonDropMin - framesPerDroppedBlock
        framesPer10Mins       == 10 * framesPerNonDropMin - tcStd.dropFramesPer10Mins
        numComplete10MinBlocks == FloorOfQuotient(ToNumber(frameIdx), framesPer10Mins)
        framesRemaining0      == NumSub(ToNumber(frameIdx),
                                     NumMul(numComplete10MinBlocks, framesPer10Mins))
        numDroppedFrames0     == NumMul(numComplete10MinBlocks, tcStd.dropFramesPer10Mins)
    IN  IF NumLess(Num(framesPerNonDropMin), framesRemaining0)
        THEN LET framesRemaining1    == NumSub(framesRemaining0, Num(framesPerNonDropMin))
                 numCompleteDropMins == FloorOfQuotient(framesRemaining1, framesPerDropMin)
             IN  NumAdd(numDroppedFrames0,
                     NumMul(NumAdd(numCompleteDropMins, Num(1)), framesPerDroppedBlock))
        ELSE numDroppedFrames0

\* framesDroppedBeforeFrameIdx_ that does not count the current minute's block.
framesDroppedBeforeFrameIdx_NoCurrentMinute(frameIdx, tcStd) ==
    IF tcStd.dropFramesPer10Mins = 0 THEN Num(0)
    ELSE
    LET framesPerNonDropMin   == tcStd.intFps * SECS_PER_MIN_
        framesPerDroppedBlock == framesPerDroppedBlock_(tcStd)
        framesPerDropMin      == framesPerNonDropMin - framesPerDroppedBlock
        framesPer10Mins       == 10 * framesPerNonDropMin - tcStd.dropFramesPer10Mins
        numComplete10MinBlocks == FloorOfQuotient(ToNumber(frameIdx), framesPer10Mins)
        framesRemaining0      == NumSub(ToNumber(frameIdx),
                                     NumMul(numComplete10MinBlocks, framesPer10Mins))
        numDroppedFrames0     == NumMul(numComplete10MinBlocks, tcStd.dropFramesPer10Mins)
    IN  IF NumAtLeast(framesRemaining0, Num(framesPerNonDropMin))
        THEN LET framesRemaining1    == NumSub(framesRemaining0, Num(framesPerNonDropMin))
                 numCompleteDropMins == FloorOfQuotient(framesRemaining1, framesPerDropMin)
             IN  NumAdd(numDroppedFrames0, NumMul(numCompleteDropMins, framesPerDroppedBlock))
        ELSE numDroppedFrames0

\* The number of frame numbers dropped before frameIdx, which the arithmetic
\* operators take as a number: dropFramesPer10Mins for each complete block of
\* framesPer10Mins = 10 * framesPerNonDropMin - dropFramesPer10Mins frames,
\* and the blocks of the minutes after them.
framesDroppedBeforeFrameIdx_(frameIdx, tcStd) ==
    IF tcStd.dropFramesPer10Mins = 0 THEN Num(0)
    ELSE DroppedBefore(ToNumber(frameIdx),
                       10 * (tcStd.intFps * SECS_PER_MIN_) - tcStd.dropFramesPer10Mins,
                       tcStd)

\* What q = Math.floor(x / d); x -= q * d gives for each divisor d of ds in
\* turn: the quotients, and last what remains of x.
RECURSIVE Quotients(_, _)

QuotientThen(x, q, ds) == <<q>> \o Quotients(NumSub(x, NumMul(q, ds[1])), Tail(ds))

Quotients(x, ds) ==
    IF ds = <<>> THEN <<x>> ELSE QuotientThen(x, FloorOfQuotient(x, ds[1]), ds)

\* The timecode of four fields in a sequence.
SeqTc(q) == ParsedTimecode(q[1], q[2], q[3], q[4])

\* The hh, mm, ss, ff that frameIdxToTc_ computes before it formats them,
\* as numbers: the quotients by framesPerHr, framesPerMin and intFps, and
\* what remains.  frameIdx is any value: the + joins a text with the number
\* of dropped frames, and the arithmetic after it takes the result as a
\* number.
frameIdxToTcFields_(frameIdx, tcStd) ==
    SeqTc(Quotients(ToNumber(Plus(frameIdx, framesDroppedBeforeFrameIdx_(frameIdx, tcStd))),
                    <<tcStd.intFps * SECS_PER_MIN_ * MINS_PER_HR_,
                      tcStd.intFps * SECS_PER_MIN_,
                      tcStd.intFps>>))

\* A field that is an integer below 2^31 as the plain integer that parseTc_
\* gives; any other number stays a number.
PlainField(x) == IF x.den = 0 THEN x.int ELSE x

\* The timecode of the fields that frameIdxToTc_ computed.
PlainTc(t) ==
    ParsedTimecode(PlainField(t.hh), PlainField(t.mm), PlainField(t.ss), PlainField(t.ff))

ErrNegativeIdx == "negative timecode values are not supported"

Threw(msg) == [tc |-> NoTc, ret |-> inputValueErr_(msg)]

\* The timecode of the fields t and its text.
Formatted(t) == [tc |-> PlainTc(t), ret |-> Str(tcToStr_(t))]

\* frameIdxToTc_ as [tc |-> the timecode it formats (NoTc if it throws),
\* ret |-> the text it returns or the error it throws].
FrameIdxToTcBuilt(frameIdx, tcStd) ==
    IF NumLess(ToNumber(frameIdx), Num(0)) THEN Threw(ErrNegativeIdx)
    ELSE Formatted(frameIdxToTcFields_(frameIdx, tcStd))

\* Returns the timecode text, or the error thrown.
frameIdxToTc_(frameIdx, tcStd) == FrameIdxToTcBuilt(frameIdx, tcStd).ret

frameIdxToWallSecs_Inverted(frameIdx, tcStd) ==
    NumMulDiv(ToNumber(frameIdx), tcStd.frames, tcStd.perWallSecs)

\* frameIdx * perWallSecs / frames in double arithmetic.
frameIdxToWallSecs_(frameIdx, tcStd) ==
    NumMulDiv(ToNumber(frameIdx), tcStd.perWallSecs, tcStd.frames)

ErrWallSecsFinite == "wallSecs must be a finite number"

\* Returns [err |-> the message thrown ("" if none), frac |-> the fractional
\* frame index wallSecs * frames / perWallSecs in double arithmetic].
wallSecsToFractionalFrameIdx_(wallSecs, tcStd) ==
    IF ~IsFinite(wallSecs)
    THEN [err |-> ErrWallSecsFinite \o ": " \o Join(StringOfValue(wallSecs)), frac |-> NaN]
    ELSE [err |-> "", frac |-> NumMulDiv(wallSecs, tcStd.frames, tcStd.perWallSecs)]

----------------------------------------------------------------------------
(* The custom functions.  Each returns [tc |-> the ParsedTimecode it built *)
(* (NoTc if it built none), ret |-> the value returned or error thrown].   *)
(* A function that takes frameRate and dropType is its body applied to p,  *)
(* the result of parseTcStd_.                                              *)

\* e.toString() of a caught error: a text that carries the error's message.
ErrorToString(msg) == [Str(<<>>) EXCEPT !.msg = msg]

\* validateTc_ on what parseTc_ returned: [err |-> the message thrown by
\* either ("" if none), tc |-> the ParsedTimecode].
CheckedTc(timecode, q, tcStd) ==
    IF q.err # "" THEN q ELSE [err |-> validateTc_(timecode, q.tc, tcStd), tc |-> q.tc]

ParsedAndValidated(timecode, tcStd) == CheckedTc(timecode, parseTc_(timecode), tcStd)

TcErrorOf(c) == [tc |-> c.tc, ret |-> IF c.err # "" THEN ErrorToString(c.err) ELSE Str(<<>>)]

TcErrorIn(timecode, p) ==
    IF p.err # "" THEN [tc |-> NoTc, ret |-> ErrorToString(p.err)]
    ELSE TcErrorOf(ParsedAndValidated(timecode, p.std))

TC_ERROR_NoValidate(timecode, frameRateArg, dropTypeArg) ==
    LET p == parseTcStd_(frameRateArg, dropTypeArg) IN
    IF p.err # "" THEN [tc |-> NoTc, ret |-> ErrorToString(p.err)]
    ELSE LET q == parseTc_(timecode) IN
    IF q.err # "" THEN [tc |-> NoTc, ret |-> ErrorToString(q.err)]
    ELSE [tc |-> q.tc, ret |-> Str(<<>>)]

TC_ERROR(timecode, frameRateArg, dropTypeArg) ==
    TcErrorIn(timecode, parseTcStd_(frameRateArg, dropTypeArg))

TcToFrameIdxOf(c, tcStd) ==
    [tc |-> c.tc,
     ret |-> IF c.err # "" THEN inputValueErr_(c.err) ELSE tcToFrameIdx_(TcNumbers(c.tc), tcStd)]

TcToFrameIdxIn(timecode, p) ==
    IF p.err # "" THEN Threw(p.err)
    ELSE TcToFrameIdxOf(ParsedAndValidated(timecode, p.std), p.std)

TC_TO_FRAMEIDX(timecode, frameRateArg, dropTypeArg) ==
    TcToFrameIdxIn(timecode, parseTcStd_(frameRateArg, dropTypeArg))

TcToWallSecsOf(c, tcStd) ==
    [tc |-> c.tc,
     ret |-> IF c.err # "" THEN inputValueErr_(c.err)
             ELSE frameIdxToWallSecs_(tcToFrameIdx_(TcNumbers(c.tc), tcStd), tcStd)]

TcToWallSecsIn(timecode, p) ==
    IF p.err # "" THEN Threw(p.err)
    ELSE TcToWallSecsOf(ParsedAndValidated(timecode, p.std), p.std)

TC_TO_WALL_SECS(timecode, frameRateArg, dropTypeArg) ==
    TcToWallSecsIn(timecode, parseTcStd_(frameRateArg, dropTypeArg))

\* (endIdx - startIdx) * perWallSecs / frames, for idx = <<startIdx, endIdx>>.
WallSecsBetweenIdxs(idx, tcStd) ==
    NumMulDiv(NumSub(idx[2], idx[1]), tcStd.perWallSecs, tcStd.frames)

\* c is start and end, each parsed and validated.  tc is the ParsedTimecode
\* validated last: startTc if its validation threw, endTc if end was parsed,
\* NoTc if a parse threw.
WallSecsBetweenTcsOf(c, tcStd) ==
    IF c[1].err # "" THEN [tc |-> c[1].tc, ret |-> inputValueErr_(c[1].err)]
    ELSE IF c[2].err # "" THEN [tc |-> c[2].tc, ret |-> inputValueErr_(c[2].err)]
    ELSE [tc |-> c[2].tc,
          ret |-> WallSecsBetweenIdxs([k \in 1..2 |-> tcToFrameIdx_(TcNumbers(c[k].tc), tcStd)],
                                      tcStd)]

WallSecsBetweenTcsIn(start, end, p) ==
    IF p.err # "" THEN Threw(p.err)
    ELSE WallSecsBetweenTcsOf([k \in 1..2 |-> ParsedAndValidated(<<start, end>>[k], p.std)],
                              p.std)

WALL_SECS_BETWEEN_TCS_StartMinusEnd(start, end, frameRateArg, dropTypeArg) ==
    LET p == parseTcStd_(frameRateArg, dropTypeArg) IN
    IF p.err # "" THEN Threw(p.err)
    ELSE LET qs == parseTc_(start) IN
    IF qs.err # "" THEN Threw(qs.err)
    ELSE LET vs == validateTc_(start, qs.tc, p.std) IN
    IF vs # "" THEN [tc |-> qs.tc, ret |-> inputValueErr_(vs)]
    ELSE LET qe == parseTc_(end) IN
    IF qe.err # "" THEN Threw(qe.err)
    ELSE LET ve == validateTc_(end, qe.tc, p.std) IN
    IF ve # "" THEN [tc |-> qe.tc, ret |-> inputValueErr_(ve)]
    ELSE LET startIdx == tcToFrameIdx_(TcNumbers(qs.tc), p.std)
             endIdx   == tcToFrameIdx_(TcNumbers(qe.tc), p.std)
         IN  [tc |-> qe.tc,
              ret |-> NumMulDiv(NumSub(startIdx, endIdx), p.std.perWallSecs, p.std.frames)]

WALL_SECS_BETWEEN_TCS(start, end, frameRateArg, dropTypeArg) ==
    WallSecsBetweenTcsIn(start, end, parseTcStd_(frameRateArg, dropTypeArg))

FrameIdxToTcIn(frameIdx, p) ==
    IF p.err # "" THEN Threw(p.err) ELSE FrameIdxToTcBuilt(frameIdx, p.std)

\* frameIdx is any value: it is handed to frameIdxToTc_ as it is.
FRAMEIDX_TO_TC(frameIdx, frameRateArg, dropTypeArg) ==
    FrameIdxToTcIn(frameIdx, parseTcStd_(frameRateArg, dropTypeArg))

ErrFrameIdxInteger == "frameIdx must be non-negative integer"

FrameIdxToWallSecsIn(frameIdx, p) ==
    IF p.err # "" THEN Threw(p.err)
    ELSE IF ~IsInteger(frameIdx) \/ NumLess(frameIdx, Num(0)) THEN Threw(ErrFrameIdxInteger)
    ELSE [tc |-> NoTc, ret |-> frameIdxToWallSecs_(frameIdx, p.std)]

FRAMEIDX_TO_WALL_SECS_NegativeOnly(frameIdx, frameRateArg, dropTypeArg) ==
    LET p == parseTcStd_(frameRateArg, dropTypeArg) IN
    IF p.err # "" THEN Threw(p.err)
    ELSE IF NumLess(ToNumber(frameIdx), Num(0)) THEN Threw(ErrFrameIdxInteger)
    ELSE [tc |-> NoTc, ret |-> frameIdxToWallSecs_(frameIdx, p.std)]

FRAMEIDX_TO_WALL_SECS(frameIdx, frameRateArg, dropTypeArg) ==
    FrameIdxToWallSecsIn(frameIdx, parseTcStd_(frameRateArg, dropTypeArg))

SECS_PER_HR_ == MINS_PER_HR_ * SECS_PER_MIN_

NegativePrefix == <<"(", "-", ")", " ">>

\* The output for the texts of hh, mm and ss: hh only if positive, mm only
\* if hh or mm is positive and padded if hh is, ss always and padded.
DurStrOfTexts(output, positive, texts) ==
    output
        \o (IF positive[1] THEN texts[1] \o <<"h", " ">> ELSE <<>>)
        \o (IF positive[1] \/ positive[2]
            THEN (IF positive[1] THEN PadStart2(texts[2]) ELSE texts[2]) \o <<"m", " ">>
            ELSE <<>>)
        \o PadStart2(texts[3]) \o <<"s">>

DurStrOfParts(output, parts) ==
    DurStrOfTexts(output,
                  [k \in 1..2 |-> NumLess(Num(0), parts[k])],
                  [k \in 1..3 |-> StringOfNumber(parts[k])])

\* The output for the rounded magnitude wallSecs: hh, mm and ss are its
\* quotients by the seconds of an hour and of a minute and what remains.
DurStrOfRounded(isNegative, wallSecs) ==
    DurStrOfParts(IF isNegative /\ wallSecs # Num(0) THEN NegativePrefix ELSE <<>>,
                  Quotients(wallSecs, <<SECS_PER_HR_, SECS_PER_MIN_>>))

DurStrOfSigned(isNegative, wallSecs) ==
    DurStrOfRounded(isNegative, MathRound(IF isNegative THEN NumNeg(wallSecs) ELSE wallSecs))

WALL_SECS_TO_DURSTR_MinutesPadded(wallSecs) ==
    IF wallSecs.type # "number" \/ ~IsFinite(wallSecs) THEN Threw(ErrWallSecsFinite)
    ELSE LET isNegative == NumLess(wallSecs, Num(0))
             magnitude == IF isNegative THEN NumNeg(wallSecs) ELSE wallSecs
             rounded == MathRound(magnitude)
             prefix == IF isNegative /\ rounded # Num(0) THEN NegativePrefix ELSE <<>>
             hh == FloorOfQuotient(rounded, SECS_PER_HR_)
             wallSecs1 == NumSub(rounded, NumMul(hh, SECS_PER_HR_))
             mm == FloorOfQuotient(wallSecs1, SECS_PER_MIN_)
             ss == NumSub(wallSecs1, NumMul(mm, SECS_PER_MIN_))
             hours == IF NumLess(Num(0), hh) THEN StringOfNumber(hh) \o <<"h", " ">> ELSE <<>>
             minutes ==
                 IF NumLess(Num(0), hh) \/ NumLess(Num(0), mm)
                 THEN PadStart2(StringOfNumber(mm))
                          \o <<"m", " ">>
                 ELSE <<>>
         IN  [tc |-> NoTc,
              ret |-> Str(prefix \o hours \o minutes \o PadStart2(StringOfNumber(ss)) \o <<"s">>)]

\* The quotients, products and differences are those of double arithmetic:
\* exact while wallSecs is below 2^53, rounded above.
WALL_SECS_TO_DURSTR(wallSecs) ==
    IF wallSecs.type # "number" \/ ~IsFinite(wallSecs) THEN Threw(ErrWallSecsFinite)
    ELSE [tc |-> NoTc, ret |-> Str(DurStrOfSigned(NumLess(wallSecs, Num(0)), wallSecs))]

\* wallSecsToFractionalFrameIdx_ in the standard of p, or the error of p.
FractionalFrameIdxIn(wallSecs, p) ==
    IF p.err # "" THEN [err |-> p.err, frac |-> NaN]
    ELSE wallSecsToFractionalFrameIdx_(wallSecs, p.std)

\* The frame index frameIdx taken from f, or the error of f.
FrameIdxOf(f, frameIdx) ==
    IF f.err # "" THEN Threw(f.err) ELSE [tc |-> NoTc, ret |-> frameIdx]

\* The timecode of the frame index frameIdx taken from f, or the error of f.
TcOf(f, frameIdx, tcStd) ==
    IF f.err # "" THEN Threw(f.err) ELSE FrameIdxToTcBuilt(frameIdx, tcStd)

FrameIdxLeftOf(f) == FrameIdxOf(f, MathFloor(f.frac))

WALL_SECS_TO_FRAMEIDX_LEFT(wallSecs, frameRateArg, dropTypeArg) ==
    FrameIdxLeftOf(FractionalFrameIdxIn(wallSecs, parseTcStd_(frameRateArg, dropTypeArg)))

FrameIdxRightOf(f) == FrameIdxOf(f, MathCeil(f.frac))

WALL_SECS_TO_FRAMEIDX_RIGHT(wallSecs, frameRateArg, dropTypeArg) ==
    FrameIdxRightOf(FractionalFrameIdxIn(wallSecs, parseTcStd_(frameRateArg, dropTypeArg)))

TcLeftOf(f, tcStd) == TcOf(f, MathFloor(f.frac), tcStd)

WallSecsToTcLeftIn(wallSecs, p) == TcLeftOf(FractionalFrameIdxIn(wallSecs, p), p.std)

WALL_SECS_TO_TC_LEFT(wallSecs, frameRateArg, dropTypeArg) ==
    WallSecsToTcLeftIn(wallSecs, parseTcStd_(frameRateArg, dropTypeArg))

TcRightOf(f, tcStd) == TcOf(f, MathCeil(f.frac), tcStd)

WallSecsToTcRightIn(wallSecs, p) == TcRightOf(FractionalFrameIdxIn(wallSecs, p), p.std)

WALL_SECS_TO_TC_RIGHT(wallSecs, frameRateArg, dropTypeArg) ==
    WallSecsToTcRightIn(wallSecs, parseTcStd_(frameRateArg, dropTypeArg))

----------------------------------------------------------------------------
(* Inputs                                                                  *)

\* Frame indices 0..MaxFrameIdx are all tried.
MaxFrameIdx == 130

\* Timecode minutes 0..MaxMinute (and the minutes of LateMinuteInputs) have
\* the frame indices around their first frame tried.
MaxMinute == 21

\* How far around the first frame of a minute the frame indices are tried.
Window == 5

\* The vertical tab U+000B, the no-break space U+00A0, the Ogham space mark
\* U+1680 and the zero width no-break space U+FEFF, each one character, for the
\* inputs padded with them.
VerticalTab == ""

NoBreakSpace == " "

OghamSpaceMark == " "

ZeroWidthNoBreakSpace == "﻿"

SupportedLabelInputs ==
    {L23_976, L23_98, L24_000, L24_00, L25_000, L25_00, L29_970, L29_97, L30_000, L30_00,
     L47_952, L47_95, L48_000, L48_00, L50_000, L50_00, L59_940, L59_94, L60_000, L60_00}

DropLabelInputs == {L29_970, L29_97, L59_940, L59_94}

\* Labels that are not of the shape DD.DD or DD.DDD.
MalformedLabelInputs ==
    {<<"2", "4">>, <<"2", "4", ".", "0">>, <<"2", "4", ".", "0", "0", "0", "0">>,
     <<"2", ".", "4", "0", "0">>, <<"2", "4", ",", "0", "0">>, <<"2", "9", ":", "9", "7", "0">>,
     <<"2", "4", "0", "0", "0">>, <<"2", "4", "\n", "0", "0">>, <<"2", "4", "\r", "0", "0">>,
     <<"a", "b", ".", "c", "d">>, <<>>}

\* Labels of the shape DD.DD or DD.DDD that name no supported rate.
UnsupportedLabelInputs ==
    {<<"2", "3", ".", "9", "7">>, <<"2", "4", ".", "5", "0">>, <<"9", "9", ".", "9", "9", "9">>,
     <<"2", "4", ".", "0", "0", "1">>}

PaddedLabelInputs ==
    {<<" ">> \o L29_97 \o <<" ">>, <<" ">> \o L24_000, L24_00 \o <<"\r">>,
     <<"\f", "\t">> \o L29_97 \o <<"\r", "\n">>, L24_00 \o <<VerticalTab>>,
     <<NoBreakSpace, ZeroWidthNoBreakSpace>> \o L29_97 \o <<OghamSpaceMark>>}

DropFlagInputs == {Str(TextDrop), Str(TextNonDrop)}

OddDropFlagInputs ==
    {Str(<<"D", "R", "O", "P">>), Str(<<" ", "N", "o", "n", "-", "D", "r", "o", "p", " ">>),
     Str(<<"d", "r", "o", "p", "f", "r", "a", "m", "e">>), Str(<<"n", "o", "n", "d", "r", "o", "p">>),
     Str(<<"d", "r", "o", "p", "\r">>), Str(<<"\f", "n", "o", "n", "-", "d", "r", "o", "p">>),
     Str(<<VerticalTab, "d", "r", "o", "p", NoBreakSpace>>),
     Str(<<>>), Boolean(TRUE)}

\* The standards that resolve, spelled exactly.
CoreStdInputs ==
    {<<Str(l), Str(TextNonDrop)>> : l \in SupportedLabelInputs}
        \cup {<<Str(l), Str(TextDrop)>> : l \in DropLabelInputs}

\* Those of them with a label of two decimals: every supported rate with
\* every flag it takes, once.  They are tried with every input, the same
\* rates spelled with three decimals with the boundary inputs.
FullStdInputs == {c \in CoreStdInputs : Len(c[1].s) = 5}

OddStdInputs ==
    {<<Str(l), Str(TextDrop)>> : l \in SupportedLabelInputs \ DropLabelInputs}
        \cup {<<Str(l), d>> :
                l \in MalformedLabelInputs \cup UnsupportedLabelInputs \cup PaddedLabelInputs,
                d \in DropFlagInputs}
        \cup {<<Str(l), d>> : l \in {L29_97, L24_00}, d \in OddDropFlagInputs}
        \cup {<<Num(24), Str(TextNonDrop)>>, <<Num(30), Str(TextDrop)>>}

StdInputs == CoreStdInputs \cup OddStdInputs

AllColons == <<":", ":", ":">>

SepInputs == {<<a, b, c>> : a \in {":", ";"}, b \in {":", ";"}, c \in {":", ";"}}

\* The text DDsDDsDDsDD of four two-digit fields and three separators.
TcText(hh, mm, ss, ff, sep) ==
    <<DigitChars[(hh \div 10) + 1], DigitChars[(hh % 10) + 1], sep[1],
      DigitChars[(mm \div 10) + 1], DigitChars[(mm % 10) + 1], sep[2],
      DigitChars[(ss \div 10) + 1], DigitChars[(ss % 10) + 1], sep[3],
      DigitChars[(ff \div 10) + 1], DigitChars[(ff % 10) + 1]>>

Packed(hh, mm, ss, ff) == ((hh * 100 + mm) * 100 + ss) * 100 + ff

HhInputs == {0, 1, 99}
MmInputs == {0, 1, 9, 10, 11, 59, 60}
SsInputs == {0, 1, 59, 60}
FfInputs == {0, 1, 2, 3, 4, 5, 23, 24, 25, 29, 30, 47, 48, 49, 50, 59, 60}

ColonTimecodeInputs ==
    {Str(TcText(hh, mm, ss, ff, AllColons)) :
        hh \in HhInputs, mm \in MmInputs, ss \in SsInputs, ff \in FfInputs}

\* Fields tried with every separator mix and as packed integers.
BoundaryFieldInputs ==
    {<<0, 0, 0, 0>>, <<0, 0, 59, 23>>, <<0, 0, 59, 29>>, <<0, 1, 0, 0>>, <<0, 1, 0, 1>>,
     <<0, 1, 0, 2>>, <<0, 1, 0, 3>>, <<0, 1, 0, 4>>, <<0, 10, 0, 0>>, <<1, 0, 0, 0>>,
     <<4, 33, 22, 11>>, <<99, 59, 59, 23>>, <<0, 60, 0, 0>>, <<0, 61, 0, 0>>, <<0, 0, 60, 0>>,
     <<0, 0, 0, 60>>}

SepTimecodeInputs ==
    {Str(TcText(f[1], f[2], f[3], f[4], sep)) : f \in BoundaryFieldInputs, sep \in SepInputs}

NumericTimecodeInputs ==
    {Num(Packed(f[1], f[2], f[3], f[4])) : f \in BoundaryFieldInputs}
        \cup {Num(-1), Num(MaxNumericTimecode), Num(MaxNumericTimecode + 1), Rat(1, 2),
              Rat(-1, 2), Rat(2002, 1000), NaN, Infinity,
              WholeLiteral(FALSE, <<"2", "1", "4", "7", "4", "8", "3", "6", "4", "8">>)}

OddTimecodeInputs ==
    {Str(<<" ">> \o TcText(0, 1, 0, 2, AllColons) \o <<" ">>),
     Str(<<" ">> \o TcText(0, 1, 0, 2, <<";", ";", ";">>)),
     Str(TcText(0, 0, 0, 0, AllColons) \o <<"\r">>),
     Str(<<"\f">> \o TcText(0, 0, 0, 1, AllColons) \o <<"\r", "\n">>),
     Str(TcText(0, 0, 1, 2, AllColons) \o <<VerticalTab>>),
     Str(<<ZeroWidthNoBreakSpace, OghamSpaceMark>> \o TcText(0, 0, 1, 2, AllColons)
             \o <<NoBreakSpace>>),
     Str(<<"0", ":", "0", "0", ":", "0", "0", ":", "0", "0">>),
     Str(<<"0", "0", ":", "0", "0", ":", "0", "0">>),
     Str(<<"0", "0", ".", "0", "0", ".", "0", "0", ".", "0", "0">>),
     Str(<<"1", "0", "0", ":", "0", "0", ":", "0", "0", ":", "0", "0">>),
     Str(<<>>), Boolean(TRUE)}

BoundaryTimecodeInputs ==
    SepTimecodeInputs \cup NumericTimecodeInputs \cup OddTimecodeInputs

TimecodeInputs == ColonTimecodeInputs \cup BoundaryTimecodeInputs

SmokeTimecodeInputs ==
    {Str(TcText(0, 0, 0, 0, AllColons)), Str(TcText(0, 1, 0, 0, AllColons)),
     Str(TcText(0, 1, 0, 2, <<";", ":", ":">>)), Num(1000002), Str(<<>>)}

TimecodeInputsFor(fr, dt) ==
    IF <<fr, dt>> \in FullStdInputs THEN TimecodeInputs
    ELSE IF <<fr, dt>> \in CoreStdInputs THEN BoundaryTimecodeInputs
    ELSE SmokeTimecodeInputs

BoundaryTimecodeInputsFor(fr, dt) ==
    IF <<fr, dt>> \in CoreStdInputs THEN BoundaryTimecodeInputs ELSE SmokeTimecodeInputs

LateMinuteInputs == {59, 60, 61, 600, 5999, 6000, 6001}

MinuteInputs == (0..MaxMinute) \cup LateMinuteInputs

\* The index of the first frame of timecode minute m when a second has
\* fps frame numbers and blk of them are skipped at the start of every
\* minute that is not a multiple of 10: the frame numbers of minutes
\* 0..m-1, less the ones skipped in those minutes.
FirstFrameOfMinute(m, fps, blk) == m * 60 * fps - blk * ((m - 1) - ((m - 1) \div 10))

NominalFps(label) == 10 * DigitVal(label[1]) + DigitVal(label[2]) + (IF label[4] = "9" THEN 1 ELSE 0)

\* The frame indices -1..last and those within Window of the first frame
\* of the minutes.
FrameIdxInputsOf(fps, blk, last, minutes) ==
    {Num(i) : i \in
        (-1..last) \cup
        {j \in {FirstFrameOfMinute(m, fps, blk) + d :
                    m \in minutes, d \in (-Window)..Window} : j >= 0}}

BoundaryMinuteInputs == {1, 10, 600, 6000}

\* Frame indices whose wall seconds are a double exactly: 1875, the odd part
\* of 30000 and 60000, under every standard, and 375, the odd part of 24000,
\* under every standard but those of 29.97 and 59.94 frames.
ExactTimeFrameIdxInputs == {Num(375), Num(1875)}

FrameIdxInputsIn(full, fps, blk) ==
    IF full THEN FrameIdxInputsOf(fps, blk, MaxFrameIdx, MinuteInputs) \cup ExactTimeFrameIdxInputs
    ELSE FrameIdxInputsOf(fps, blk, Window, BoundaryMinuteInputs)

FrameIdxInputsFor(fr, dt) ==
    IF <<fr, dt>> \in CoreStdInputs
    THEN FrameIdxInputsIn(<<fr, dt>> \in FullStdInputs, NominalFps(fr.s),
                          IF dt.s = TextDrop THEN NominalFps(fr.s) \div 15 ELSE 0)
    ELSE {Num(-1), Num(0), Num(1800)}

\* Frame indices that are not non-negative integers.
OddFrameIdxInputs == {Rat(-1, 2), NegInfinity}

\* Integer frame indices of 2^31 and more: 2^31, 2^40, 2^50 - 1,
\* 3840278354439646, 4410093825383657, 9005459059532225, 2^53 - 2 and
\* 2^53 - 1; and 15728640000 = 1875 * 2^23 and 16890933174375 = 1875 *
\* 9008497693, whose wall seconds are a double exactly under every standard.
WideFrameIdxDigits ==
    {<<"1", "5", "7", "2", "8", "6", "4", "0", "0", "0", "0">>,
     <<"1", "6", "8", "9", "0", "9", "3", "3", "1", "7", "4", "3", "7", "5">>,
     <<"2", "1", "4", "7", "4", "8", "3", "6", "4", "8">>,
     <<"1", "0", "9", "9", "5", "1", "1", "6", "2", "7", "7", "7", "6">>,
     <<"1", "1", "2", "5", "8", "9", "9", "9", "0", "6", "8", "4", "2", "6", "2", "3">>,
     <<"3", "8", "4", "0", "2", "7", "8", "3", "5", "4", "4", "3", "9", "6", "4", "6">>,
     <<"4", "4", "1", "0", "0", "9", "3", "8", "2", "5", "3", "8", "3", "6", "5", "7">>,
     <<"9", "0", "0", "5", "4", "5", "9", "0", "5", "9", "5", "3", "2", "2", "2", "5">>,
     <<"9", "0", "0", "7", "1", "9", "9", "2", "5", "4", "7", "4", "0", "9", "9", "0">>,
     <<"9", "0", "0", "7", "1", "9", "9", "2", "5", "4", "7", "4", "0", "9", "9", "1">>}

WideFrameIdxInputs == {WholeLiteral(FALSE, d) : d \in WideFrameIdxDigits}

\* Values that FRAMEIDX_TO_TC takes although they are no integer frame
\* index: fractions, NaN, Infinity, texts and booleans.
UncheckedFrameIdxInputs ==
    {Rat(1, 2), Rat(3599, 2), NaN, Infinity, Str(<<"1">>), Str(<<"1", "8", "0", "0">>),
     Str(<<" ", "7", " ">>), Str(<<VerticalTab, "7">>), Str(<<"-", "1">>), Str(<<"a">>), Str(<<>>),
     Boolean(TRUE), Boolean(FALSE)}

WideFrameIdxInputsFor(fr, dt) ==
    IF <<fr, dt>> \in CoreStdInputs THEN WideFrameIdxInputs
    ELSE {WholeLiteral(FALSE, <<"2", "1", "4", "7", "4", "8", "3", "6", "4", "8">>)}

UncheckedFrameIdxInputsFor(fr, dt) ==
    IF <<fr, dt>> \in CoreStdInputs THEN UncheckedFrameIdxInputs ELSE {Rat(1, 2), Str(<<"1">>)}

NonIntegerFrameIdxInputs ==
    {Rat(1, 2), Rat(3, 2), Rat(-3, 2), Rat(1001, 1000), Infinity, NaN, Str(<<"1">>), Boolean(TRUE)}

\* Start and end timecodes of durations.
BetweenTimecodeInputsFor(fr, dt) ==
    IF <<fr, dt>> \in CoreStdInputs
    THEN SmokeTimecodeInputs \cup
         {Str(TcText(f[1], f[2], f[3], f[4], AllColons)) :
            f \in {<<0, 0, 0, 1>>, <<0, 0, 59, 23>>, <<0, 1, 0, 4>>, <<0, 9, 59, 23>>,
                   <<0, 10, 0, 0>>, <<1, 0, 0, 0>>, <<99, 59, 59, 23>>, <<0, 0, 0, 60>>}}
         \cup {Num(4332211)}
    ELSE SmokeTimecodeInputs

\* The times of frames -MaxWallFrame..MaxWallFrame and the times half way
\* between them are tried as wall seconds.
MaxWallFrame == 40

\* Whole wall seconds -MaxWallSecs..MaxWallSecs are tried.
MaxWallSecs == 12

LateWallSecsInputs == {59, 60, 61, 3599, 3600, 3601, 35999, 36000}

MilliInputs == {-1001, -1000, -999, -700, -100, -42, -41, -34, -33, -17, -16, -1, 1, 16, 17, 33,
                34, 41, 42, 100, 700, 999, 1000, 1001, 1041, 1042, 60060, 3603599, 3603600,
                3603601}

\* Wall seconds next to -2^31 and 2^31, and wall seconds whose frame index
\* under 24.00 is next to -2^31: -2147483648.5, -2147483647.5, -89478485.3,
\* 2147483647.5 and 2147483648.5.
WideWallSecsInputs ==
    {StringToNumber(<<"-", "2", "1", "4", "7", "4", "8", "3", "6", "4", "8", ".", "5">>),
     StringToNumber(<<"-", "2", "1", "4", "7", "4", "8", "3", "6", "4", "7", ".", "5">>),
     StringToNumber(<<"-", "8", "9", "4", "7", "8", "4", "8", "5", ".", "3">>),
     StringToNumber(<<"2", "1", "4", "7", "4", "8", "3", "6", "4", "7", ".", "5">>),
     StringToNumber(<<"2", "1", "4", "7", "4", "8", "3", "6", "4", "8", ".", "5">>)}

NonFiniteInputs == {Infinity, NegInfinity, NaN, Str(<<"1">>), Str(<<>>), Boolean(TRUE)}

\* The times of frames -last..last of std and the times half way between
\* them.
FrameTimeInputs(std, last) ==
    {MulDiv(i, std.perWallSecs, std.frames) : i \in (-last)..last}
        \cup {MulDiv(2 * i + 1, std.perWallSecs, 2 * std.frames) : i \in (-last)..last}

WallSecsInputsIn(full, std) ==
    IF full
    THEN FrameTimeInputs(std, MaxWallFrame)
             \cup {Num(k) : k \in ((-MaxWallSecs)..MaxWallSecs) \cup LateWallSecsInputs}
             \cup {Rat(k, 1000) : k \in MilliInputs}
             \cup {Rat(k, 3) : k \in {-4, -2, -1, 1, 2, 4, 10}}
             \cup WideWallSecsInputs
             \cup NonFiniteInputs
    ELSE FrameTimeInputs(std, Window) \cup {Num(3600), Rat(-1, 3)} \cup NonFiniteInputs

WallSecsInputsFor(fr, dt) ==
    IF <<fr, dt>> \in CoreStdInputs
    THEN WallSecsInputsIn(<<fr, dt>> \in FullStdInputs, parseTcStd_(fr, dt).std)
    ELSE {Num(0), Rat(-1, 2), Num(1), NaN}

\* Durations -MaxDurHalves/2..MaxDurHalves/2 are tried in steps of half a
\* second.
MaxDurHalves == 150

LateDurHalves == {1199, 1200, 1201, 7198, 7199, 7200, 7201, 7319, 7320, 7530, 9989, 71999, 72000,
                  86399, 86400, 719999, 720000}

\* Durations of 2^31 seconds and more: 2^31, 2^53 - 1, 2^53, 10^16, 10^18,
\* 286721567700836380, 41 * 10^17, 811 * 10^16 and 10^25.
WideDurDigits ==
    {<<"2", "1", "4", "7", "4", "8", "3", "6", "4", "8">>,
     <<"9", "0", "0", "7", "1", "9", "9", "2", "5", "4", "7", "4", "0", "9", "9", "1">>,
     <<"9", "0", "0", "7", "1", "9", "9", "2", "5", "4", "7", "4", "0", "9", "9", "2">>,
     <<"1">> \o Zeros(25),
     <<"1">> \o Zeros(16), <<"1">> \o Zeros(18),
     <<"2", "8", "6", "7", "2", "1", "5", "6", "7", "7", "0", "0", "8", "3", "6", "3", "8", "0">>,
     <<"4", "1">> \o Zeros(17), <<"8", "1", "1">> \o Zeros(16)}

WideDurInputs == {WholeLiteral(neg, d) : neg \in BOOLEAN, d \in WideDurDigits}

\* Durations with a fraction next to 2^31 and to 2^52: 2147483647.5,
\* 2147483648.25, 2147483648.5, 4503599627370494.5 and 4503599627370495.5,
\* and the same below zero.
FractionDurDigits ==
    {<<"2", "1", "4", "7", "4", "8", "3", "6", "4", "7", ".", "5">>,
     <<"2", "1", "4", "7", "4", "8", "3", "6", "4", "8", ".", "2", "5">>,
     <<"2", "1", "4", "7", "4", "8", "3", "6", "4", "8", ".", "5">>,
     <<"4", "5", "0", "3", "5", "9", "9", "6", "2", "7", "3", "7", "0", "4", "9", "4", ".", "5">>,
     <<"4", "5", "0", "3", "5", "9", "9", "6", "2", "7", "3", "7", "0", "4", "9", "5", ".", "5">>}

FractionDurInputs ==
    {StringToNumber(d) : d \in FractionDurDigits}
        \cup {StringToNumber(<<"-">> \o d) : d \in FractionDurDigits}

DurInputs ==
    WideDurInputs \cup FractionDurInputs \cup
    {Rat(k, 2) : k \in (-MaxDurHalves)..MaxDurHalves}
        \cup {Rat(k, 2) : k \in LateDurHalves} \cup {Rat(-k, 2) : k \in LateDurHalves}
        \cup {Rat(k, 10) : k \in {-596, -595, -594, -6, -5, -4, -1, 1, 4, 5, 6, 594, 595, 596}}
        \cup {Rat(k, 1000) : k \in {-500, -499, 499, 500, 501, 59499, 59500, 3599499, 3599500}}
        \cup NonFiniteInputs

DurInputsFor(fr, dt) ==
    IF <<fr, dt>> \in FullStdInputs THEN DurInputs
    ELSE {Num(0), Rat(-1, 2), Num(3765), NaN}

----------------------------------------------------------------------------
(* A row of the sheet: a frameRate cell, a dropType cell, one cell that    *)
(* calls a custom function on entered values, and then cells that each     *)
(* call a custom function on the result of the cell before.                *)

Call(f, a, t, r) == [fn |-> f, args |-> a, tc |-> t, ret |-> r]

NoCall == Call("none", <<>>, NoTc, None)

ThisCall == Call(fn, args, tc, ret)

Init ==
    /\ \E std \in StdInputs : frameRate = std[1] /\ dropType = std[2]
    /\ fn = "none"
    /\ args = <<>>
    /\ tc = NoTc
    /\ ret = None
    /\ prev = NoCall

\* The values that a cell takes as its first argument: the entered ones in
\* the row's first call, and after it the result of the cell before, when
\* that cell called one of the functions after and returned a value of the
\* type.
FirstArguments(entered, after, type) ==
    IF fn = "none" THEN entered
    ELSE IF fn \in after /\ ret.type = type THEN {ret}
    ELSE {}

\* The call of the cell before (NoCall in the row's first call).
CellBefore == IF fn = "none" THEN NoCall ELSE ThisCall

\* The cell calls f on the arguments a and shows what it returns or throws.
Returns(f, a, out) ==
    /\ fn' = f
    /\ args' = a
    /\ tc' = out.tc
    /\ ret' = out.ret
    /\ prev' = CellBefore
    /\ UNCHANGED <<frameRate, dropType>>

TcErrorCell ==
    \E t \in FirstArguments(BoundaryTimecodeInputsFor(frameRate, dropType),
                            {"FRAMEIDX_TO_TC"}, "string") :
        Returns("TC_ERROR", <<t>>, TC_ERROR(t, frameRate, dropType))

TcToFrameIdxCell ==
    \E t \in FirstArguments(TimecodeInputsFor(frameRate, dropType),
                            {"FRAMEIDX_TO_TC"}, "string") :
        Returns("TC_TO_FRAMEIDX", <<t>>, TC_TO_FRAMEIDX(t, frameRate, dropType))

TcToWallSecsCell ==
    \E t \in FirstArguments(BoundaryTimecodeInputsFor(frameRate, dropType), {}, "string") :
        Returns("TC_TO_WALL_SECS", <<t>>, TC_TO_WALL_SECS(t, frameRate, dropType))

WallSecsBetweenTcsCell ==
    \E s \in FirstArguments(BetweenTimecodeInputsFor(frameRate, dropType), {}, "string"),
       e \in BetweenTimecodeInputsFor(frameRate, dropType) :
        Returns("WALL_SECS_BETWEEN_TCS", <<s, e>>,
                WALL_SECS_BETWEEN_TCS(s, e, frameRate, dropType))

FrameIdxToTcCell ==
    \E i \in FirstArguments(FrameIdxInputsFor(frameRate, dropType) \cup OddFrameIdxInputs
                                \cup WideFrameIdxInputsFor(frameRate, dropType)
                                \cup UncheckedFrameIdxInputsFor(frameRate, dropType),
                            {"TC_TO_FRAMEIDX"}, "number") :
        Returns("FRAMEIDX_TO_TC", <<i>>, FRAMEIDX_TO_TC(i, frameRate, dropType))

FrameIdxToWallSecsCell ==
    \E i \in FirstArguments(FrameIdxInputsFor(frameRate, dropType) \cup OddFrameIdxInputs
                                \cup WideFrameIdxInputsFor(frameRate, dropType)
                                \cup NonIntegerFrameIdxInputs,
                            {}, "number") :
        Returns("FRAMEIDX_TO_WALL_SECS", <<i>>,
                FRAMEIDX_TO_WALL_SECS(i, frameRate, dropType))

WallSecsToDurStrCell ==
    \E w \in FirstArguments(DurInputsFor(frameRate, dropType), {}, "number") :
        Returns("WALL_SECS_TO_DURSTR", <<w>>, WALL_SECS_TO_DURSTR(w))

WallSecsToFrameIdxLeftCell ==
    \E w \in FirstArguments(WallSecsInputsFor(frameRate, dropType),
                            {"FRAMEIDX_TO_WALL_SECS"}, "number") :
        Returns("WALL_SECS_TO_FRAMEIDX_LEFT", <<w>>,
                WALL_SECS_TO_FRAMEIDX_LEFT(w, frameRate, dropType))

WallSecsToFrameIdxRightCell ==
    \E w \in FirstArguments(WallSecsInputsFor(frameRate, dropType),
                            {"FRAMEIDX_TO_WALL_SECS"}, "number") :
        Returns("WALL_SECS_TO_FRAMEIDX_RIGHT", <<w>>,
                WALL_SECS_TO_FRAMEIDX_RIGHT(w, frameRate, dropType))

WallSecsToTcLeftCell ==
    \E w \in FirstArguments(WallSecsInputsFor(frameRate, dropType),
                            {"FRAMEIDX_TO_WALL_SECS"}, "number") :
        Returns("WALL_SECS_TO_TC_LEFT", <<w>>,
                WALL_SECS_TO_TC_LEFT(w, frameRate, dropType))

WallSecsToTcRightCell ==
    \E w \in FirstArguments(WallSecsInputsFor(frameRate, dropType),
                            {"FRAMEIDX_TO_WALL_SECS"}, "number") :
        Returns("WALL_SECS_TO_TC_RIGHT", <<w>>,
                WALL_SECS_TO_TC_RIGHT(w, frameRate, dropType))

Next ==
    \/ TcErrorCell
    \/ TcToFrameIdxCell
    \/ TcToWallSecsCell
    \/ WallSecsBetweenTcsCell
    \/ FrameIdxToTcCell
    \/ FrameIdxToWallSecsCell
    \/ WallSecsToDurStrCell
    \/ WallSecsToFrameIdxLeftCell
    \/ WallSecsToFrameIdxRightCell
    \/ WallSecsToTcLeftCell
    \/ WallSecsToTcRightCell

Spec == Init /\ [][Next]_vars

\* The resolved standard of the sheet (meaningful when Resolves).
Resolves == parseTcStd_(frameRate, dropType).err = ""

tcStd == parseTcStd_(frameRate, dropType).std

----------------------------------------------------------------------------
(* Vocabulary of the properties                                            *)

\* A custom function with the frameRate and dropType arguments was called
\* (every one but WALL_SECS_TO_DURSTR has them).
TakesStandard == fn \notin {"none", "WALL_SECS_TO_DURSTR"}

TimecodeFns == {"TC_ERROR", "TC_TO_FRAMEIDX", "TC_TO_WALL_SECS", "WALL_SECS_BETWEEN_TCS"}

\* The call reported an invalid input: TC_ERROR by returning a non-empty
\* error text, every other function by throwing.
Rejected == IF fn = "TC_ERROR" THEN ret.type = "string" /\ ret.msg # "" ELSE ret.type = "error"

Accepted == IF fn = "TC_ERROR" THEN ret = Str(<<>>) ELSE ret.type \in {"number", "string"}

\* A timecode function was called, the standard resolved and the timecode
\* parsed, so that tc went through validation.
Validated == fn \in TimecodeFns /\ Resolves /\ tc # NoTc

\* The timecode argument that tc was parsed from.
RawTimecode ==
    IF fn = "WALL_SECS_BETWEEN_TCS" /\ validateTc_(args[1], parseTc_(args[1]).tc, tcStd) = ""
    THEN args[2] ELSE args[1]

IsDropStd == tcStd.dropFramesPer10Mins > 0

\* Frame numbers skipped per dropped minute, as the documentation gives
\* them: 2 for 29.97, 4 for 59.94.
DocBlock == IF Trim(frameRate.s) \in {L29_970, L29_97} THEN 2 ELSE 4

\* Frame numbers per second, read off the label: 23.976 -> 24, 29.97 -> 30.
DocFps == NominalFps(Trim(frameRate.s))

\* t names a dropped frame number when frame numbers are dropped (drop) in
\* blocks of blk.
IsDroppedNumberIn(t, drop, blk) == drop /\ t.ss = 0 /\ (t.mm % 10) # 0 /\ t.ff < blk

IsDroppedNumber(t) == IsDroppedNumberIn(t, IsDropStd, DocBlock)

UsesSemicolon(v) == v.type = "string" /\ \E k \in 1..Len(v.s) : v.s[k] = ";"

ColonForm(v) == Str([k \in 1..Len(v.s) |-> IF v.s[k] = ";" THEN ":" ELSE v.s[k]])

\* The valid timecode after t in (hh, mm, ss, ff) order, with fps frame
\* numbers a second.
NextTcIn(t, fps, drop, blk) ==
    LET u == IF t.ff + 1 < fps THEN ParsedTimecode(t.hh, t.mm, t.ss, t.ff + 1)
             ELSE IF t.ss + 1 < 60 THEN ParsedTimecode(t.hh, t.mm, t.ss + 1, 0)
             ELSE IF t.mm + 1 < 60 THEN ParsedTimecode(t.hh, t.mm + 1, 0, 0)
             ELSE ParsedTimecode(t.hh + 1, 0, 0, 0)
    IN  IF IsDroppedNumberIn(u, drop, blk) THEN [u EXCEPT !.ff = blk] ELSE u

NextTc(t) == NextTcIn(t, DocFps, IsDropStd, DocBlock)

TcLess(a, b) ==
    \/ a.hh < b.hh
    \/ a.hh = b.hh /\ a.mm < b.mm
    \/ a.hh = b.hh /\ a.mm = b.mm /\ a.ss < b.ss
    \/ a.hh = b.hh /\ a.mm = b.mm /\ a.ss = b.ss /\ a.ff < b.ff

FieldsValidIn(t, fps, drop, blk) ==
    /\ t.hh \in 0..99 /\ t.mm \in 0..59 /\ t.ss \in 0..59 /\ t.ff \in 0..(fps - 1)
    /\ ~IsDroppedNumberIn(t, drop, blk)

FieldsValid(t) == FieldsValidIn(t, DocFps, IsDropStd, DocBlock)

\* The indices an index i is compared with: those within Window of it and
\* the first frames of the minutes of MinuteInputs.
PeerFrameIdxs(i) ==
    LET fps == DocFps
        blk == IF IsDropStd THEN DocBlock ELSE 0
    IN  {j \in (i - Window)..(i + Window) : j >= 0}
            \cup {FirstFrameOfMinute(m, fps, blk) : m \in MinuteInputs}

LastOfMinute(t) == t.ss = 59 /\ t.ff = DocFps - 1

\* v is an integer frame index from 0 to below 2^30.
SmallIndex(v) == v.type = "number" /\ IsSmall(v) /\ v.int >= 0

\* v is an integer frame index from 0 on.
IntegerIndex(v) == IsInteger(v) /\ v.int >= 0

\* The magnitude of an integer number, in limbs.
Limbs(x) == IF x.den = 0 THEN BNat(IF x.int < 0 THEN -x.int ELSE x.int) ELSE x.num

\* v is an integer frame index from 0 on, and v plus the frame numbers
\* dropped before it is at most 2^53, so that the sum frameIdxToTc_ starts
\* from is the exact one.  (Fewer frame numbers are dropped before an index
\* than the index counts, so the sum of an index below 2^30 is below 2^31.)
ExactIndex(v, std) ==
    /\ IntegerIndex(v)
    /\ \/ IsSmall(v)
       \/ BCmp(BAdd(Limbs(v), Limbs(framesDroppedBeforeFrameIdx_(v, std)), 0),
               BShl(<<1>>, 53)) <= 0

\* The frame indices an index v is compared with: those of PeerFrameIdxs,
\* and for an index of 2^30 and more the indices within Window of it.
PeerIndices(v) ==
    IF IsSmall(v) THEN {Num(j) : j \in PeerFrameIdxs(v.int)}
    ELSE {NumSub(v, Num(d)) : d \in 1..Window} \cup {NumAdd(v, Num(d)) : d \in 1..Window}

\* The fields t, as numbers, have mm < 60, ss < 60 and ff < intFps, name no
\* dropped frame number, and pass validateTc_.
FieldsInRange(t) ==
    /\ NumAtLeast(t.hh, Num(0)) /\ IsInteger(t.hh)
    /\ t.mm.den = 0 /\ t.mm.int \in 0..59
    /\ t.ss.den = 0 /\ t.ss.int \in 0..59
    /\ t.ff.den = 0 /\ t.ff.int \in 0..(DocFps - 1)
    /\ LET u == ParsedTimecode(0, t.mm.int, t.ss.int, t.ff.int)
       IN  ~IsDroppedNumber(u) /\ validateTc_(ret, u, tcStd) = ""

----------------------------------------------------------------------------
(* Properties                                                              *)

\* The hh, mm, ss, ff that FRAMEIDX_TO_TC computed for its frame index
\* convert back (timecode -> frame index) to that index.
FieldsConvertBack ==
    LET std == tcStd
        t   == frameIdxToTcFields_(args[1], std)
    IN  ret.type = "string" /\ tc = PlainTc(t) /\ tcToFrameIdx_(t, std) = args[1]

\* While hh <= 99, TC_TO_FRAMEIDX of the text FRAMEIDX_TO_TC returned
\* for an integer frame index returns that index.
TextConvertsBack ==
    (fn = "TC_TO_FRAMEIDX" /\ prev.fn = "FRAMEIDX_TO_TC" /\ SmallIndex(prev.args[1])
        /\ prev.tc.hh <= 99) => ret = prev.args[1]

\* C1 as stated: for every standard that resolves and every integer frame
\* index i >= 0, the hh, mm, ss, ff that frame index -> timecode computes
\* convert back (timecode -> frame index) to i.
C1_IdxTcIdxAll ==
    /\ (fn = "FRAMEIDX_TO_TC" /\ Resolves /\ IntegerIndex(args[1])) => FieldsConvertBack
    /\ TextConvertsBack

\* C1, amended: as stated, for every integer frame index i >= 0 for which
\* i plus the frame numbers dropped before i is at most 2^53 (the sum that
\* the conversion starts from is then exact).
C1_IdxTcIdx ==
    /\ (fn = "FRAMEIDX_TO_TC" /\ Resolves /\ ExactIndex(args[1], tcStd)) => FieldsConvertBack
    /\ TextConvertsBack

\* An index of 2^31 or more was converted under a drop standard.
C1_Witness ==
    /\ fn = "FRAMEIDX_TO_TC" /\ Resolves /\ IsDropStd
    /\ IsWide(args[1]) /\ ExactIndex(args[1], tcStd)
    /\ ret.type = "string"

\* C2: for every standard and every timecode that passes validation, the
\* frame index of the timecode converts back to the same hh, mm, ss, ff,
\* and FRAMEIDX_TO_TC of the index TC_TO_FRAMEIDX returned gives the
\* timecode's text (with colons).
C2_TcIdxTc ==
    /\ (fn = "TC_TO_FRAMEIDX" /\ ret.type = "number")
          => PlainTc(frameIdxToTcFields_(ret, tcStd)) = tc
    /\ (fn = "FRAMEIDX_TO_TC" /\ prev.fn = "TC_TO_FRAMEIDX")
          => tc = prev.tc /\ ret = Str(TcText(tc.hh, tc.mm, tc.ss, tc.ff, AllColons))

\* The last timecode of hour 99 under 59.94 drop went to an index and back.
C2_Witness ==
    /\ fn = "FRAMEIDX_TO_TC" /\ prev.fn = "TC_TO_FRAMEIDX"
    /\ tcStd.dropFramesPer10Mins = 36
    /\ prev.tc = ParsedTimecode(99, 59, 59, 59)

\* The fields t that FRAMEIDX_TO_TC computed for its frame index are in
\* range, and no other frame index among peers gives the same fields under
\* the standard std.
FieldsOfOneIndexAre(t, std, peers) ==
    /\ ret.type = "string" /\ tc = PlainTc(t)
    /\ FieldsInRange(t)
    /\ \A j \in peers \ {args[1]} : frameIdxToTcFields_(j, std) # t

FieldsOfOneIndex(std, peers) ==
    FieldsOfOneIndexAre(frameIdxToTcFields_(args[1], std), std, peers)

\* The frame indices of PeerIndices that are integers from 0 on.
IntegerPeers == {j \in PeerIndices(args[1]) : IntegerIndex(j)}

\* Those of them whose sum with the frame numbers dropped before is exact.
ExactPeers(std) == {j \in PeerIndices(args[1]) : ExactIndex(j, std)}

FieldsOfOneExactIndex(std) == FieldsOfOneIndex(std, ExactPeers(std))

\* C3 as stated: frame index -> timecode produces, for every integer index
\* i >= 0, fields with mm < 60, ss < 60, ff < intFps that are not a dropped
\* frame number and that validation accepts, and no other integer index
\* i >= 0 (within Window of i, or at the first frame of a minute of
\* MinuteInputs) produces the same fields.
C3_NoGapsAll ==
    (fn = "FRAMEIDX_TO_TC" /\ Resolves /\ IntegerIndex(args[1]))
        => FieldsOfOneIndex(tcStd, IntegerPeers)

\* C3, amended: as stated, for the integer frame indices i >= 0 for which i
\* plus the frame numbers dropped before i is at most 2^53.
C3_NoGaps ==
    (fn = "FRAMEIDX_TO_TC" /\ Resolves /\ ExactIndex(args[1], tcStd))
        => FieldsOfOneExactIndex(tcStd)

\* The index after the last frame of minute 00:01 under 59.94 drop was entered.
C3_Witness ==
    /\ fn = "FRAMEIDX_TO_TC" /\ prev.fn = "none" /\ tcStd.dropFramesPer10Mins = 36
    /\ args[1] = Num(2 * 3600 - 4)
    /\ tc = ParsedTimecode(0, 2, 0, 4)

\* The index ret of tc is 0 for 00:00:00:00, one less than the index of the
\* valid timecode n after tc, and less than the index of every later valid
\* timecode of BoundaryFieldInputs (p is the standard as parseTcStd_ returned
\* it, of fps frame numbers a second, dropped in blocks of blk if at all).
IndexBefore(p, fps, drop, blk, n) ==
    /\ (tc = ParsedTimecode(0, 0, 0, 0) => ret = Num(0))
    /\ ret.int >= 0
    /\ n.hh <= 99 =>
          TcToFrameIdxIn(Str(TcText(n.hh, n.mm, n.ss, n.ff, AllColons)), p).ret
              = Num(ret.int + 1)
    /\ \A f \in BoundaryFieldInputs :
          LET u == ParsedTimecode(f[1], f[2], f[3], f[4])
          IN  (FieldsValidIn(u, fps, drop, blk) /\ TcLess(tc, u))
                  => ret.int < tcToFrameIdx_(TcNumbers(u), p.std).int

ConsecutiveOf(p, fps, drop, blk) == IndexBefore(p, fps, drop, blk, NextTcIn(tc, fps, drop, blk))

ConsecutiveIn(p, fps, blk) == ConsecutiveOf(p, fps, p.std.dropFramesPer10Mins > 0, blk)

\* C4: timecode -> frame index gives 0 for 00:00:00:00; the valid timecode
\* after a valid timecode has the index one higher; and a later valid
\* timecode has a higher index.
C4_Consecutive ==
    (fn = "TC_TO_FRAMEIDX" /\ ret.type = "number") =>
        ConsecutiveIn(parseTcStd_(frameRate, dropType), DocFps, DocBlock)

\* The last frame of a minute before a minute that drops frame numbers was
\* converted, so that the next valid timecode skips them.
C4_Witness ==
    /\ fn = "TC_TO_FRAMEIDX" /\ ret.type = "number" /\ IsDropStd
    /\ tc = ParsedTimecode(1, 0, 59, DocFps - 1)
    /\ NextTc(tc) = ParsedTimecode(1, 1, 0, DocBlock)

\* C5: under a drop standard the frame index after the one of the last
\* frame of a minute (ss = 59, ff = intFps - 1) is second 00 of the next
\* minute, frame number framesPerDroppedBlock if that minute is not a
\* multiple of 10 and frame 00 if it is; under 29.97 drop index 1799 is
\* 00:00:59:29 and index 1800 is 00:01:00:02, in both directions.
C5_MinuteRollover ==
    /\ (fn = "FRAMEIDX_TO_TC" /\ Resolves /\ IsDropStd /\ SmallIndex(args[1])
            /\ args[1].int >= 1
            /\ LastOfMinute(PlainTc(frameIdxToTcFields_(Num(args[1].int - 1), tcStd))))
          => /\ tc.ss = 0
             /\ tc.mm = (frameIdxToTcFields_(Num(args[1].int - 1), tcStd).mm.int + 1) % 60
             /\ tc.ff = IF tc.mm % 10 # 0 THEN DocBlock ELSE 0
    /\ (fn = "TC_TO_FRAMEIDX" /\ ret.type = "number" /\ IsDropStd /\ LastOfMinute(tc))
          => LET n == PlainTc(frameIdxToTcFields_(Num(ret.int + 1), tcStd))
             IN  /\ n.ss = 0
                 /\ n.mm = (tc.mm + 1) % 60
                 /\ n.ff = IF n.mm % 10 # 0 THEN DocBlock ELSE 0
    /\ (Resolves /\ tcStd.dropFramesPer10Mins = 18) =>
          /\ (fn = "FRAMEIDX_TO_TC" /\ args[1] = Num(1799))
                => ret = Str(TcText(0, 0, 59, 29, AllColons))
          /\ (fn = "FRAMEIDX_TO_TC" /\ args[1] = Num(1800))
                => ret = Str(TcText(0, 1, 0, 2, AllColons))
          /\ (fn = "TC_TO_FRAMEIDX" /\ args[1] = Str(TcText(0, 0, 59, 29, AllColons)))
                => ret = Num(1799)
          /\ (fn = "TC_TO_FRAMEIDX" /\ args[1] = Str(TcText(0, 1, 0, 2, AllColons)))
                => ret = Num(1800)

\* Index 1800 was entered under 29.97 drop and came out as 00:01:00:02.
C5_Witness ==
    /\ fn = "FRAMEIDX_TO_TC" /\ prev.fn = "none" /\ args[1] = Num(1800)
    /\ tcStd.dropFramesPer10Mins = 18
    /\ LastOfMinute(PlainTc(frameIdxToTcFields_(Num(1799), tcStd)))
    /\ tc = ParsedTimecode(0, 1, 0, 2)

\* C6: under a drop standard every timecode with ss = 0, mm % 10 # 0 and
\* ff < framesPerDroppedBlock (2 for 29.97, 4 for 59.94) is rejected by
\* every function that takes a timecode (with the dropped-frame message
\* when mm is in range); the timecodes with ss = 0 and those frame numbers
\* are accepted when mm % 10 = 0, and under the non-drop flag (written
\* without semicolons).
C6_DroppedRejected ==
    Validated =>
        /\ IsDroppedNumber(tc) => Rejected
        /\ (IsDroppedNumber(tc) /\ tc.mm < 60) => ret.msg = ErrTcDropped(tc)
        /\ (tc.ss = 0 /\ tc.mm \in 0..59 /\ tc.ff < DocBlock /\ tc.ff < DocFps
                /\ (tc.mm % 10 = 0 \/ ~IsDropStd)
                /\ (IsDropStd \/ ~UsesSemicolon(RawTimecode)))
              => Accepted

\* 00:01:00:03 was rejected by TC_TO_WALL_SECS under 59.94 drop.
C6_Witness ==
    /\ fn = "TC_TO_WALL_SECS" /\ Validated /\ tcStd.dropFramesPer10Mins = 36
    /\ tc = ParsedTimecode(0, 1, 0, 3)
    /\ ret = inputValueErr_(ErrTcDropped(ParsedTimecode(0, 1, 0, 3)))

\* C7: validation rejects exactly the parsed timecodes with mm >= 60, or
\* ss >= 60, or ff >= intFps, or a dropped frame number, or a semicolon
\* under a non-drop standard, each range violation with the message that
\* names its field; hh is any of 0..99.
C7_RangeChecks ==
    Validated =>
        /\ tc.hh \in 0..99
        /\ Rejected <=> \/ tc.mm >= 60
                        \/ tc.ss >= 60
                        \/ tc.ff >= DocFps
                        \/ IsDroppedNumber(tc)
                        \/ (UsesSemicolon(RawTimecode) /\ ~IsDropStd)
        /\ tc.mm >= 60 => ret.msg = ErrTcMM(tc.mm)
        /\ (tc.mm < 60 /\ tc.ss >= 60) => ret.msg = ErrTcSS(tc.ss)
        /\ (tc.mm < 60 /\ tc.ss < 60 /\ tc.ff >= DocFps) => ret.msg = ErrTcFF(DocFps, tc.ff)

\* 99:59:59:23 was accepted under a 23.976 standard, where ff = 24 is out of range.
C7_Witness ==
    /\ fn = "TC_TO_FRAMEIDX" /\ Validated /\ DocFps = 24 /\ tcStd.perWallSecs = 1001
    /\ tc = ParsedTimecode(99, 59, 59, 23)
    /\ Accepted

\* C8: a text timecode parses with ':' or ';' at each of its three
\* separator positions; with a semicolon anywhere it is rejected under a
\* non-drop standard, and under a drop standard it gives what its
\* all-colon form gives (the same frame index when that form is valid).
C8_Semicolons ==
    (fn = "TC_TO_FRAMEIDX" /\ Resolves /\ prev.fn = "none" /\ UsesSemicolon(args[1])
        /\ parseTc_(ColonForm(args[1])).err = "") =>
        /\ tc = parseTc_(ColonForm(args[1])).tc
        /\ ~IsDropStd => ret.type = "error"
        /\ (~IsDropStd /\ FieldsValid(tc)) => ret = inputValueErr_(ErrTcSemi(args[1].s))
        /\ IsDropStd => ret = TC_TO_FRAMEIDX(ColonForm(args[1]), frameRate, dropType).ret
        /\ (IsDropStd /\ FieldsValid(tc)) => ret.type = "number"

\* 00;01:00;02 gave index 1800 under 29.97 drop.
C8_Witness ==
    /\ fn = "TC_TO_FRAMEIDX" /\ tcStd.dropFramesPer10Mins = 18
    /\ args[1] = Str(TcText(0, 1, 0, 2, <<";", ":", ";">>))
    /\ ret = Num(1800)

\* The messages of parseTcStd_ for the label of the call.
StdErrors ==
    {ErrRateNotText, ErrRateFormat, ErrRateUnsupported(Trim(frameRate.s)), ErrDropNotText,
     ErrDropValue, ErrMustBeNonDrop(Trim(frameRate.s))}

\* C9: with the flag "drop" a standard resolves only for the labels 29.970,
\* 29.97 (dropFramesPer10Mins 18) and 59.940, 59.94 (36), and every other
\* supported label fails with the must-be-non-drop error; with the flag
\* "non-drop" every supported label resolves with dropFramesPer10Mins 0
\* (labels and flags taken trimmed, flags in any letter case).
\* The index of 00:10:00:00 shows the frame numbers dropped in 10 minutes.
C9_DropLabels ==
    (TakesStandard /\ frameRate.type = "string" /\ Trim(frameRate.s) \in SupportedLabelInputs
        /\ dropType.type = "string"
        /\ \E flag \in {TextDrop, TextNonDrop} : LowersTo(Trim(dropType.s), flag)) =>
        LET label == Trim(frameRate.s)
            drop  == LowersTo(Trim(dropType.s), TextDrop)
            drops == IF ~drop THEN 0
                     ELSE IF label \in {L29_970, L29_97} THEN 18 ELSE 36
        IN  IF drop /\ label \notin {L29_970, L29_97, L59_940, L59_94}
            THEN ~Resolves /\ Rejected /\ ret.msg = ErrMustBeNonDrop(label)
            ELSE /\ Resolves
                 /\ tcStd.dropFramesPer10Mins = drops
                 /\ ret.msg \notin StdErrors
                 /\ (fn = "TC_TO_FRAMEIDX" /\ args[1] = Str(TcText(0, 10, 0, 0, AllColons)))
                       => ret = Num(600 * DocFps - drops)

\* 30.00 with the flag "drop" was refused.
C9_Witness ==
    /\ fn = "TC_TO_FRAMEIDX" /\ frameRate = Str(L30_00) /\ dropType = Str(TextDrop)
    /\ ret = inputValueErr_(ErrMustBeNonDrop(L30_00))

\* Two digits, a decimal point, and two or three digits.
WellShapedLabel(l) ==
    /\ Len(l) \in {5, 6}
    /\ \A k \in (1..Len(l)) \ {3} : IsDigit(l[k])
    /\ l[3] = "."

\* C10: a (trimmed) rate label that is not two digits, a decimal point and
\* two or three digits is rejected with the format message, and a label of
\* that shape that is not supported is rejected with the unsupported-rate
\* message.
C10_FormatMessage ==
    (TakesStandard /\ frameRate.type = "string") =>
        LET l == Trim(frameRate.s)
        IN  /\ ~WellShapedLabel(l) => Rejected /\ ret.msg = ErrRateFormat
            /\ (WellShapedLabel(l) /\ l \notin SupportedLabelInputs)
                  => Rejected /\ ret.msg = ErrRateUnsupported(l)

\* A finite number below 0 (its integer part, the floor, is below 0 too).
IsNegative(v) == IsFinite(v) /\ v.int < 0

\* C11: under every supported standard, WALL_SECS_TO_TC_LEFT and
\* WALL_SECS_TO_TC_RIGHT of wall seconds below 0 both fail with an input
\* error and return no timecode.
C11_NegativeWallSecs ==
    (fn \in {"WALL_SECS_TO_TC_LEFT", "WALL_SECS_TO_TC_RIGHT"} /\ Resolves
        /\ IsNegative(args[1])) => ret.type = "error"

\* The exact number d * n, for a finite double d and an integer 0 < n < 2^24.
ExactProduct(d, n) == Double(d.neg, BMul(d.m, n), d.e)

\* x <= y, for exact numbers.
ExactAtMost(x, y) == ~BelowZero(DSum(y, DNeg(x)))

\* t / c is an integer, for an exact number t and an integer 0 < c < 2^24.
WholeQuotient(t, c) ==
    IF t.e >= 0 THEN BDivMod(BShl(t.m, t.e), c).r = 0
    ELSE LET f == BDivPow2(t.m, -t.e) IN f.r = <<>> /\ BDivMod(f.q, c).r = 0

\* wallSecs * frames, the numerator of the exact fractional frame index of
\* the double wallSecs (the index is this number over perWallSecs).
ExactIndexNumerator(wallSecs, std) == ExactProduct(DoubleOf(wallSecs), std.frames)

\* left <= wallSecs * frames / perWallSecs <= right for the exact index, the
\* three multiplied by perWallSecs.
AroundExactIndex(left, right, wallSecs, std) ==
    /\ ExactAtMost(ExactProduct(DoubleOf(left), std.perWallSecs),
                   ExactIndexNumerator(wallSecs, std))
    /\ ExactAtMost(ExactIndexNumerator(wallSecs, std),
                   ExactProduct(DoubleOf(right), std.perWallSecs))

\* C12: for finite wall seconds, negative ones included,
\* WALL_SECS_TO_FRAMEIDX_LEFT <= wallSecs * frames / perWallSecs <=
\* WALL_SECS_TO_FRAMEIDX_RIGHT, and RIGHT - LEFT is 0 or 1, 0 exactly when
\* that fractional index is an integer (the index being the exact product
\* and quotient of the double wallSecs, not rounded).
C12_LeftRight ==
    (fn \in {"WALL_SECS_TO_FRAMEIDX_LEFT", "WALL_SECS_TO_FRAMEIDX_RIGHT"} /\ Resolves
        /\ IsFinite(args[1])) =>
        LET left  == WALL_SECS_TO_FRAMEIDX_LEFT(args[1], frameRate, dropType).ret
            right == WALL_SECS_TO_FRAMEIDX_RIGHT(args[1], frameRate, dropType).ret
        IN  /\ ret = IF fn = "WALL_SECS_TO_FRAMEIDX_LEFT" THEN left ELSE right
            /\ IsInteger(left) /\ IsInteger(right)
            /\ AroundExactIndex(left, right, args[1], tcStd)
            /\ NumSub(right, left) \in {Num(0), Num(1)}
            /\ (right = left)
                  <=> WholeQuotient(ExactIndexNumerator(args[1], tcStd), tcStd.perWallSecs)

\* -x for x < 0, else x.
NumAbs(x) == IF x.int < 0 THEN NumNeg(x) ELSE x

\* 2^-30 second, about a nanosecond.
TimeTolerance == NumberOf(Double(FALSE, <<1>>, -30))

\* The index of the timecode value v under the sheet's standard.
IndexOf(v) == TC_TO_FRAMEIDX(v, frameRate, dropType).ret.int

\* What C13 says of a duration but for the difference of wall seconds:
\* WALL_SECS_BETWEEN_TCS(start, end) is (index(end) - index(start)) *
\* perWallSecs / frames, negative exactly when end precedes start, zero
\* exactly when both name the same frame, and negated by swapping the two.
DurationOfIndexDifference ==
    LET std == tcStd
        s == IndexOf(args[1])
        e == IndexOf(args[2])
        a == parseTc_(args[1]).tc
        b == parseTc_(args[2]).tc
    IN  /\ ret = MulDiv(e - s, std.perWallSecs, std.frames)
        /\ ret.int < 0 <=> TcLess(b, a)
        /\ ret = Num(0) <=> a = b
        /\ WALL_SECS_BETWEEN_TCS(args[2], args[1], frameRate, dropType).ret = NumNeg(ret)

\* TC_TO_WALL_SECS(end) - TC_TO_WALL_SECS(start), the subtraction in the
\* program's arithmetic.
WallSecsDifference ==
    NumSub(TC_TO_WALL_SECS(args[2], frameRate, dropType).ret,
           TC_TO_WALL_SECS(args[1], frameRate, dropType).ret)

\* C13 as stated: WALL_SECS_BETWEEN_TCS(start, end) equals (index(end) -
\* index(start)) * perWallSecs / frames, which is TC_TO_WALL_SECS(end) -
\* TC_TO_WALL_SECS(start); it is negative exactly when end precedes start,
\* zero exactly when both name the same frame, and swapping negates it.
C13_BetweenExact ==
    (fn = "WALL_SECS_BETWEEN_TCS" /\ ret.type = "number") =>
        DurationOfIndexDifference /\ ret = WallSecsDifference

\* C13, amended: as stated, but the duration agrees with
\* TC_TO_WALL_SECS(end) - TC_TO_WALL_SECS(start) to within TimeTolerance
\* (each wall seconds value is rounded) instead of being equal to it.
C13_Between ==
    (fn = "WALL_SECS_BETWEEN_TCS" /\ ret.type = "number") =>
        /\ DurationOfIndexDifference
        /\ NumLess(NumAbs(NumSub(ret, WallSecsDifference)), TimeTolerance)

\* From 00:01:00:04 back to 00:00:59:23 under 59.94 drop: 41 frame numbers
\* before, 37 frames before.
C13_Witness ==
    /\ fn = "WALL_SECS_BETWEEN_TCS" /\ frameRate = Str(L59_94) /\ dropType = Str(TextDrop)
    /\ args = <<Str(TcText(0, 1, 0, 4, AllColons)), Str(TcText(0, 0, 59, 23, AllColons))>>
    /\ ret = MulDiv(-37, 1001, 60000)

\* C14: TC_ERROR raises nothing, whatever its arguments: it returns a text,
\* the empty text exactly when TC_TO_FRAMEIDX of the same three arguments
\* returns a value, and otherwise the non-empty text of the error that
\* TC_TO_FRAMEIDX raises.
C14_TcError ==
    fn = "TC_ERROR" =>
        LET r == TC_TO_FRAMEIDX(args[1], frameRate, dropType).ret
        IN  /\ ret.type = "string"
            /\ ret = Str(<<>>) <=> r.type = "number"
            /\ r.type # "number" => r.type = "error" /\ ret.msg # "" /\ ret.msg = r.msg

\* TC_ERROR of the dropped number 00:01:00:01 under 29.97 drop returned the
\* text of the dropped-number error.
C14_Witness ==
    /\ fn = "TC_ERROR" /\ frameRate = Str(L29_97) /\ dropType = Str(TextDrop)
    /\ args = <<Str(TcText(0, 1, 0, 1, AllColons))>>
    /\ ret = ErrorToString(ErrTcDropped(ParsedTimecode(0, 1, 0, 1)))

\* The text HH:MM:SS:FF of the decimal digits of n, for 0 <= n <= 99999999.
DigitsText(n) ==
    Str(TcText(n \div 1000000, (n \div 10000) % 100, (n \div 100) % 100, n % 100, AllColons))

\* C15: a number n given as timecode is accepted only as an integer with
\* 0 <= n <= 99999999, and is then read as HHMMSSFF (hh = n div 1000000,
\* mm = (n div 10000) mod 100, ss = (n div 100) mod 100, ff = n mod 100) with
\* the result of the text HH:MM:SS:FF of the same digits; every other
\* integer and every number that is not an integer is rejected.
C15_NumericTimecode ==
    (fn \in {"TC_ERROR", "TC_TO_FRAMEIDX", "TC_TO_WALL_SECS"} /\ Resolves
        /\ args[1].type = "number") =>
        LET n == args[1].int IN
        IF IsInteger(args[1]) /\ ~IsWide(args[1]) /\ 0 <= n /\ n <= 99999999
        THEN /\ tc = ParsedTimecode(n \div 1000000, (n \div 10000) % 100,
                                    (n \div 100) % 100, n % 100)
             /\ fn = "TC_ERROR" => ret = TC_ERROR(DigitsText(n), frameRate, dropType).ret
             /\ fn = "TC_TO_FRAMEIDX"
                   => ret = TC_TO_FRAMEIDX(DigitsText(n), frameRate, dropType).ret
             /\ fn = "TC_TO_WALL_SECS"
                   => ret = TC_TO_WALL_SECS(DigitsText(n), frameRate, dropType).ret
        ELSE Rejected /\ ret.msg = ErrTcNumber /\ tc = NoTc

\* 4332211 was read as 04:33:22:11 under 23.976.
C15_Witness ==
    /\ fn = "TC_TO_FRAMEIDX" /\ frameRate = Str(L23_976) /\ dropType = Str(TextNonDrop)
    /\ args = <<Num(4332211)>>
    /\ tc = ParsedTimecode(4, 33, 22, 11)
    /\ ret = Num(((4 * 60 + 33) * 60 + 22) * 24 + 11)

\* The text s without the prefix "(-) ", if it has it.
Body(s) == IF Len(s) >= 4 /\ SubSeq(s, 1, 4) = <<"(", "-", ")", " ">> THEN SubSeq(s, 5, Len(s)) ELSE s

\* The pieces of s between its spaces.
RECURSIVE Segments(_)
Segments(s) ==
    IF \E k \in 1..Len(s) : s[k] = " "
    THEN LET k == CHOOSE j \in 1..Len(s) : s[j] = " " /\ \A i \in 1..(j - 1) : s[i] # " "
         IN  <<SubSeq(s, 1, k - 1)>> \o Segments(SubSeq(s, k + 1, Len(s)))
    ELSE <<s>>

\* The two decimal digits of n, for n in 0..99.
TwoDigits(n) == <<DigitChars[(n \div 10) + 1], DigitChars[(n % 10) + 1]>>

\* The magnitude of the finite number x rounded to the nearest integer,
\* halves up, as a natural number in limbs: the magnitude is q + r / 2^k with
\* r < 2^k, and r / 2^k is 1/2 or more exactly when r has k bits.
RoundedMagnitudeLimbs(x) ==
    LET d == DoubleOf(x) IN
    IF d.e >= 0 THEN BShl(d.m, d.e)
    ELSE LET f == BDivPow2(d.m, -d.e)
         IN  IF BBitLen(f.r) = -d.e THEN BAdd(f.q, <<>>, 1) ELSE f.q

\* The rounded magnitude of x as a number.
RoundedMagnitude(x) == NumberOf(Double(FALSE, RoundedMagnitudeLimbs(x), 0))

\* The hours, the minutes and the seconds of r whole seconds, r in limbs.
HoursMinutesSeconds(r) ==
    LET h == BDivMod(r, 3600) IN <<h.q, BNat(h.r \div 60), BNat(h.r % 60)>>

\* The text of a count zero-padded to two digits.
ZeroPadded(text) ==
    IF Len(text) >= 2 THEN text ELSE [k \in 1..(2 - Len(text)) |-> "0"] \o text

\* The segments of a duration text with the parts hh, mm and ss: the hours
\* (unpadded, then h) exactly when hh > 0, the minutes (then m) exactly when
\* hh > 0 or mm > 0, zero-padded exactly when the hours precede them, and
\* always the seconds (zero-padded, then s).
SegmentsOfParts(hh, mm, ss) ==
    (IF NumLess(Num(0), hh) THEN <<StringOfNumber(hh) \o <<"h">>>> ELSE <<>>)
        \o (IF NumLess(Num(0), hh) THEN <<ZeroPadded(StringOfNumber(mm)) \o <<"m">>>>
            ELSE IF NumLess(Num(0), mm) THEN <<StringOfNumber(mm) \o <<"m">>>>
            ELSE <<>>)
        \o <<ZeroPadded(StringOfNumber(ss)) \o <<"s">>>>

\* The parts are the whole numbers of the limbs.
PartsAre(parts, limbs) ==
    \A k \in 1..3 : IsInteger(parts[k]) /\ parts[k].int >= 0 /\ Limbs(parts[k]) = limbs[k]

\* The text whose segments are segs, one space between them.
RECURSIVE Spaced(_)
Spaced(segs) ==
    IF Len(segs) = 1 THEN segs[1] ELSE segs[1] \o <<" ">> \o Spaced(Tail(segs))

\* The layout of the duration text, after any "(-) " prefix, for the rounded
\* magnitude r (a number, of the limbs rl) split into parts.  Whole seconds
\* of up to 53 bits are split into hours, minutes and seconds without
\* rounding.
LayoutOf(text, parts, rl) ==
    /\ Segments(Body(text)) = SegmentsOfParts(parts[1], parts[2], parts[3])
    /\ Body(text) = Spaced(SegmentsOfParts(parts[1], parts[2], parts[3]))
    /\ BBitLen(rl) <= 53 => PartsAre(parts, HoursMinutesSeconds(rl))

\* C16: the text of WALL_SECS_TO_DURSTR, after any "(-) " prefix, is its
\* segments joined by single spaces: the hours (hh, unpadded, then h) exactly
\* when hh > 0, the minutes (mm then m) exactly when hh > 0 or mm > 0,
\* zero-padded to two digits exactly when the hours precede them, and always
\* the seconds (ss zero-padded to two digits, then s); hh, mm and ss are
\* floor(s / 3600), floor(remainder / 60) and the remainder for the rounded
\* magnitude s, the hours, minutes and seconds of s while it is 2^53 or less.
C16_DurStrLayout ==
    (fn = "WALL_SECS_TO_DURSTR" /\ IsFinite(args[1])) =>
        /\ ret.type = "string"
        /\ LayoutOf(ret.s,
                    Quotients(RoundedMagnitude(args[1]), <<SECS_PER_HR_, SECS_PER_MIN_>>),
                    RoundedMagnitudeLimbs(args[1]))

\* 3765 seconds gave "1h 02m 45s".
C16_Witness ==
    /\ fn = "WALL_SECS_TO_DURSTR" /\ args = <<Num(3765)>>
    /\ ret = Str(<<"1", "h", " ", "0", "2", "m", " ", "4", "5", "s">>)

\* The text s is one decimal digit or more.
IsDigits(s) == s # <<>> /\ \A k \in 1..Len(s) : IsDigit(s[k])

\* The text of a segment before its unit letter.
Count(seg) == SubSeq(seg, 1, Len(seg) - 1)

\* The seconds that duration segments add up to, as a natural number in limbs.
RECURSIVE TotalOfSegments(_)
TotalOfSegments(segs) ==
    IF segs = <<>> THEN <<>>
    ELSE LET seg  == Head(segs)
             unit == seg[Len(seg)]
         IN  BAdd(BMulAdd(BOfDigits(Count(seg)),
                          IF unit = "h" THEN 3600 ELSE IF unit = "m" THEN 60 ELSE 1, 0),
                  TotalOfSegments(Tail(segs)), 0)

\* The text is that of the whole seconds rl (limbs): the text that the
\* function gives for rl itself, whose segments add up to rl while rl is
\* 2^53 or less.
TextOfSeconds(text, rl, whole) ==
    /\ whole.type = "string" /\ Body(text) = whole.s
    /\ BBitLen(rl) <= 53 => TotalOfSegments(Segments(Body(text))) = rl

\* The text and the text for the negated number o differ by the prefix
\* "(-) " only, which the text has exactly when the number is negative and rl
\* is not 0.
SignOf(text, o, negative, rl) ==
    /\ Body(text) # text <=> (negative /\ rl # <<>>)
    /\ o.type = "string" /\ Body(o.s) = Body(text)

\* C17: the text of WALL_SECS_TO_DURSTR is that of the magnitude of
\* wallSecs rounded to the nearest whole second, halves up; it starts with
\* "(-) " exactly when wallSecs is negative and the rounded magnitude is not
\* 0; but for the prefix, -wallSecs gives the same text.
C17_DurStrSign ==
    (fn = "WALL_SECS_TO_DURSTR" /\ IsFinite(args[1])) =>
        /\ ret.type = "string"
        /\ TextOfSeconds(ret.s, RoundedMagnitudeLimbs(args[1]),
                         WALL_SECS_TO_DURSTR(RoundedMagnitude(args[1])).ret)
        /\ SignOf(ret.s, WALL_SECS_TO_DURSTR(NumNeg(args[1])).ret, IsNegative(args[1]),
                  RoundedMagnitudeLimbs(args[1]))

\* Half a second more than 2^31 - 1 seconds before zero gave the text of
\* 2^31 seconds with the prefix.
C17_Witness ==
    /\ fn = "WALL_SECS_TO_DURSTR"
    /\ args = <<StringToNumber(<<"-", "2", "1", "4", "7", "4", "8", "3", "6", "4", "7", ".", "5">>)>>
    /\ ret = Str(<<"(", "-", ")", " ", "5", "9", "6", "5", "2", "3", "h", " ",
                   "1", "4", "m", " ", "0", "8", "s">>)

\* C18: under a supported standard FRAMEIDX_TO_TC and FRAMEIDX_TO_WALL_SECS
\* reject every frame index below 0, FRAMEIDX_TO_WALL_SECS rejects every
\* index that is not an integer as well, and both accept the index 0, with
\* 00:00:00:00 and 0 seconds.
C18_FrameIdxDomain ==
    (fn \in {"FRAMEIDX_TO_TC", "FRAMEIDX_TO_WALL_SECS"} /\ Resolves) =>
        /\ (args[1].type = "number" /\ args[1].int < 0) => ret.type = "error"
        /\ (fn = "FRAMEIDX_TO_WALL_SECS" /\ ~IsInteger(args[1])) => ret.type = "error"
        /\ args[1] = Num(0) =>
              ret = IF fn = "FRAMEIDX_TO_TC" THEN Str(TcText(0, 0, 0, 0, AllColons)) ELSE Num(0)

\* FRAMEIDX_TO_WALL_SECS refused the index 1/2 under 24.00.
C18_Witness ==
    /\ fn = "FRAMEIDX_TO_WALL_SECS" /\ frameRate = Str(L24_00) /\ dropType = Str(TextNonDrop)
    /\ args = <<Rat(1, 2)>>
    /\ ret = inputValueErr_(ErrFrameIdxInteger)

\* The text s is four fields of two digits joined by colons.
ColonTimecodeText(s) ==
    /\ Len(s) = 11
    /\ \A k \in {1, 2, 4, 5, 7, 8, 10, 11} : IsDigit(s[k])
    /\ \A k \in {3, 6, 9} : s[k] = ":"

\* C19: under every supported standard and for every frame index i >= 0,
\* FRAMEIDX_TO_TC returns a text of the form HH:MM:SS:FF, four fields of two
\* digits joined by colons (no semicolon), which TC_ERROR accepts as a
\* timecode under the same standard.
C19_TimecodeText ==
    (fn = "FRAMEIDX_TO_TC" /\ Resolves /\ IntegerIndex(args[1])) =>
        /\ ret.type = "string"
        /\ ColonTimecodeText(ret.s)
        /\ TC_ERROR(ret, frameRate, dropType).ret = Str(<<>>)

\* The frame indices the wall seconds of index i are compared with: those
\* within Window of i, and for an index below 2^30 index 0 and the first
\* index of hour 100.
WallSecsPeers(i) ==
    IF IsSmall(i)
    THEN {Num(j) : j \in {k \in ((i.int - Window)..(i.int + Window))
                                \cup {0, FirstFrameOfMinute(6000, DocFps, 0)} : k >= 0}}
    ELSE {NumSub(i, Num(d)) : d \in 1..Window} \cup {NumAdd(i, Num(d)) : d \in 1..Window}

\* FRAMEIDX_TO_WALL_SECS(i) is i * perWallSecs / frames, and in order with
\* the wall seconds of the indices j of WallSecsPeers(i): never the other
\* way round, and strictly (i < j gives less, j < i more) when both indices
\* are below limit.
WallSecsInOrder(limit, std) ==
    LET i   == args[1]
    IN  /\ ret = NumMulDiv(i, std.perWallSecs, std.frames)
        /\ \A j \in WallSecsPeers(i) :
              LET w == frameIdxToWallSecs_(j, std)
              IN  /\ NumLess(j, i) => /\ ~NumLess(ret, w)
                                      /\ NumLess(i, limit) => NumLess(w, ret)
                  /\ NumLess(i, j) => /\ ~NumLess(w, ret)
                                      /\ NumLess(j, limit) => NumLess(ret, w)

\* 2^50: below it the wall seconds of different indices differ.
StrictIndexLimit == NumberOf(Double(FALSE, <<1>>, 50))

\* x * 2^k, for a finite number x.
Scaled(x, k) == LET d == DoubleOf(x) IN NumberOf(Double(d.neg, d.m, d.e + k))

\* FRAMEIDX_TO_WALL_SECS(i + 1), for the index i of the call.
NextWallSecs == FRAMEIDX_TO_WALL_SECS(NumAdd(args[1], Num(1)), frameRate, dropType).ret

\* FRAMEIDX_TO_WALL_SECS(i + 1) - FRAMEIDX_TO_WALL_SECS(i) for the wall
\* seconds next of index i + 1, the subtraction in the program's arithmetic.
NextFrameDistance(next) == NumSub(next, ret)

\* The wall seconds next of index i + 1 are perWallSecs / frames of std after
\* those of index i to within rounding (less than 2^-50 of next).
NextFrameNear(next, std) ==
    NumLess(NumAbs(NumSub(NextFrameDistance(next), Rat(std.perWallSecs, std.frames))),
            Scaled(next, -50))

WallSecsNear(std) == WallSecsInOrder(StrictIndexLimit, std) /\ NextFrameNear(NextWallSecs, std)

WallSecsExact(std) ==
    /\ WallSecsInOrder(Infinity, std)
    /\ NextFrameDistance(NextWallSecs) = Rat(std.perWallSecs, std.frames)

\* C20 as stated: under a fixed standard FRAMEIDX_TO_WALL_SECS(i) equals
\* i * perWallSecs / frames and is strictly increasing in i, and consecutive
\* indices are exactly perWallSecs / frames seconds apart.
C20_WallSecsExact ==
    (fn = "FRAMEIDX_TO_WALL_SECS" /\ ret.type = "number") => WallSecsExact(tcStd)

\* C20, amended: under a fixed standard FRAMEIDX_TO_WALL_SECS(i) equals
\* i * perWallSecs / frames in double arithmetic and never decreases as i
\* grows; it is strictly increasing for indices below 2^50; and consecutive
\* indices are perWallSecs / frames seconds apart to within rounding (less
\* than 2^-50 of the later value) instead of exactly.
C20_WallSecs ==
    (fn = "FRAMEIDX_TO_WALL_SECS" /\ ret.type = "number") => WallSecsNear(tcStd)

\* Frame 30 of 29.97 drop is at 1.001 seconds.
C20_Witness ==
    /\ fn = "FRAMEIDX_TO_WALL_SECS" /\ frameRate = Str(L29_97) /\ dropType = Str(TextDrop)
    /\ args = <<Num(30)>> /\ ret = Rat(1001, 1000)

\* The index a timecode would have if no frame number were skipped.
RawFrameIdx(t) == DocFps * (t.hh * 3600 + t.mm * 60 + t.ss) + t.ff

\* The dropped frame numbers of an hour (mm:00:ff with mm not a multiple of
\* 10 and ff below the block size), as <<mm, ff>>.
DroppedNumbersOfHour == {n \in (0..59) \X (0..(DocBlock - 1)) : (n[1] % 10) # 0}

\* How many dropped frame numbers come before t in timecode order: all of
\* those of the hours before t.hh, and those of hour t.hh that come before t.
DroppedNumbersCount(t, ofHour) ==
    t.hh * Cardinality(ofHour)
        + Cardinality({n \in ofHour : TcLess(ParsedTimecode(t.hh, n[1], 0, n[2]), t)})

DroppedNumbersBefore(t) == DroppedNumbersCount(t, DroppedNumbersOfHour)

\* C21: for every valid timecode, TC_TO_FRAMEIDX returns the raw index
\* intFps * (hh*3600 + mm*60 + ss) + ff less the number of dropped frame
\* numbers that lie strictly before the timecode in timecode order under a
\* drop standard, and the raw index itself under a non-drop standard.
C21_DroppedBefore ==
    (fn = "TC_TO_FRAMEIDX" /\ Resolves /\ ret.type = "number")
        => IF IsDropStd
           THEN ret = Num(RawFrameIdx(tc) - DroppedNumbersBefore(tc))
           ELSE ret = Num(RawFrameIdx(tc))

\* 01:11:00:02 of 29.97 drop: 63 of the 71 minutes before it drop two
\* numbers each, and 01:11:00:00 and 01:11:00:01 are dropped as well.
C21_Witness ==
    /\ fn = "TC_TO_FRAMEIDX" /\ frameRate = Str(L29_97) /\ dropType = Str(TextDrop)
    /\ tc = ParsedTimecode(1, 11, 0, 2)
    /\ DroppedNumbersBefore(tc) = 128
    /\ ret = Num(RawFrameIdx(tc) - 128)

\* The double wallSecs is frameIdx * perWallSecs / frames exactly: wallSecs *
\* frames and frameIdx * perWallSecs are one number.
IsExactFrameTime(wallSecs, frameIdx, std) ==
    /\ ExactAtMost(ExactIndexNumerator(wallSecs, std),
                   ExactProduct(DoubleOf(frameIdx), std.perWallSecs))
    /\ ExactAtMost(ExactProduct(DoubleOf(frameIdx), std.perWallSecs),
                   ExactIndexNumerator(wallSecs, std))

\* The natural number m (in limbs) is a double: rounding changes nothing.
IsDoubleNat(m) == NumberOf(RoundToDouble(FALSE, m, FALSE, 0)) = NumberOf(Double(FALSE, m, 0))

\* The cell is a boundary query of the wall seconds that the cell before
\* computed exactly for an integer frame index i >= 0.
AfterExactFrameTime ==
    /\ prev.fn = "FRAMEIDX_TO_WALL_SECS" /\ Resolves
    /\ fn \in {"WALL_SECS_TO_FRAMEIDX_LEFT", "WALL_SECS_TO_FRAMEIDX_RIGHT",
               "WALL_SECS_TO_TC_LEFT", "WALL_SECS_TO_TC_RIGHT"}
    /\ IsInteger(prev.args[1]) /\ prev.args[1].int >= 0
    /\ IsFinite(args[1]) /\ IsExactFrameTime(args[1], prev.args[1], tcStd)

\* The boundary queries give back the frame index i and its timecode.
RoundTripOf(i) ==
    /\ fn \in {"WALL_SECS_TO_FRAMEIDX_LEFT", "WALL_SECS_TO_FRAMEIDX_RIGHT"} => ret = i
    /\ fn \in {"WALL_SECS_TO_TC_LEFT", "WALL_SECS_TO_TC_RIGHT"}
          => ret = FRAMEIDX_TO_TC(i, frameRate, dropType).ret

\* 3600 plus its minutes times 60 plus its seconds are the rounded magnitude
\* of wallSecs.
C23_DurStrRanges ==
    (fn = "WALL_SECS_TO_DURSTR" /\ IsFinite(args[1])) =>
        /\ ret.type = "string"
        /\ LET segs == Segments(Body(ret.s))
           IN  /\ \A k \in 1..Len(segs) : Len(segs[k]) >= 2 /\ IsDigits(Count(segs[k]))
               /\ segs[Len(segs)] \in {TwoDigits(n) \o <<"s">> : n \in 0..59}
               /\ \A k \in 1..Len(segs) :
                      segs[k][Len(segs[k])] = "m"
                          => Count(segs[k]) \in {StringOfNat(n) : n \in 0..59}
                                                \cup {TwoDigits(n) : n \in 0..59}
               /\ TotalOfSegments(segs) = RoundedMagnitudeLimbs(args[1])
        /\ args[1] = Rat(119, 2) => ret = Str(<<"1", "m", " ", "0", "0", "s">>)
        /\ args[1] = Rat(7199, 2)
              => ret = Str(<<"1", "h", " ", "0", "0", "m", " ", "0", "0", "s">>)

====
